---- MODULE Spec2Model ----
(***************************************************************************)
(* Model of the auxtools debug server (debug_server/src/server.rs).        *)
(*                                                                         *)
(* Spec            the dispatcher around one pause: handle_breakpoint, the *)
(*                 Paused loop and the session's Variable Reference Table  *)
(* SpecResolver    the Frame/Stack Resolver over a CallStacks snapshot     *)
(* SpecLines       get_line_number / get_offset over instruction streams   *)
(* SpecBreakpoints BreakpointSet / BreakpointUnset / #disassemble          *)
(***************************************************************************)
EXTENDS Integers, Sequences, FiniteSets, TLC

(***************************************************************************)
(* Bounds                                                                  *)
(***************************************************************************)
MaxRefs == 5          \* longest Variable Reference Table explored
MaxFrameId == 1       \* frame ids a client sends: 0..MaxFrameId
MaxFrames == 4        \* frames of one stack in SpecResolver
MaxSuspended == 2     \* suspended stacks in SpecResolver
MaxInstr == 4         \* instructions of a proc in SpecLines
MaxOffset == 6        \* largest instruction address in SpecLines
UsizeBits == 16       \* width of usize in the model

None == <<>>
Some(x) == <<x>>
IsSome(o) == o # None
Unwrap(o) == o[1]


\* i32 as usize: sign extension, then the value modulo the word size
UsizeModulus == 2 ^ UsizeBits
AsUsize(i) == i % UsizeModulus

(***************************************************************************)
(* VM values, as far as the server classifies them                         *)
(***************************************************************************)
MkValue(tag, data) == [tag |-> tag, data |-> data]
NullValue == MkValue("Null", 0)
\* Value::globals()
Globals == MkValue("World", 1)


IsList(value) == value.tag = "List"

is_object(value) ==
    \/ value.tag = "World" /\ value.data = 1
    \/ value.tag = "Datum"

(***************************************************************************)
(* enum Variables: the variable-query kinds                                *)
(***************************************************************************)
Kind(k, frame, tag, data, tag2, data2) ==
    [kind |-> k, frame |-> frame, tag |-> tag, data |-> data,
     tag2 |-> tag2, data2 |-> data2]

Arguments(frame) == Kind("Arguments", frame, "", 0, "", 0)
Locals(frame) == Kind("Locals", frame, "", 0, "", 0)
ObjectVars(v) == Kind("ObjectVars", 0, v.tag, v.data, "", 0)
ListContents(v) == Kind("ListContents", 0, v.tag, v.data, "", 0)
ListPair(k, v) == Kind("ListPair", 0, k.tag, k.data, v.tag, v.data)
Internals(frame) == Kind("Internals", frame, "", 0, "", 0)
Stack(frame) == Kind("Stack", frame, "", 0, "", 0)

FrameIds == 0..MaxFrameId

(***************************************************************************)
(* CallStacks: active and suspended stacks; a frame is known by the proc   *)
(* it runs and its offset                                                  *)
(***************************************************************************)
\* The frame the VM holds at index i of stack s.  Frames differ in what they
\* hold, so that the expansions meet every class of value.
FrameAt(s, i) ==
    IF (s + i) % 2 = 0
    THEN [proc |-> [path |-> "/proc/foo", override_id |-> 0],
          offset |-> 2 * ((s + i) % 4),
          src |-> Globals, usr |-> NullValue, dot |-> MkValue("List", 1),
          args |-> <<[named |-> FALSE, value |-> NullValue],
                     [named |-> TRUE, value |-> Globals],
                     [named |-> FALSE, value |-> NullValue]>>,
          locals |-> <<NullValue>>,
          stack |-> <<NullValue, Globals>>,
          cache |-> NullValue]
    ELSE [proc |-> [path |-> "/proc/bar", override_id |-> 0],
          offset |-> 2 * ((s + i) % 4),
          src |-> MkValue("Datum", 1), usr |-> MkValue("Datum", 1),
          dot |-> NullValue,
          args |-> <<>>,
          locals |-> <<MkValue("List", 1), MkValue("Datum", 1)>>,
          stack |-> <<MkValue("Datum", 1)>>,
          cache |-> MkValue("List", 1)]

MkStack(s, len) == [i \in 1..len |-> FrameAt(s, i - 1)]

\* CallStacks with the given stack lengths
MkStacks(alen, slens) ==
    [active |-> MkStack(0, alen),
     suspended |-> [n \in 1..Len(slens) |-> MkStack(n, slens[n])]]

RECURSIVE SeqsUpTo(_, _)
SeqsUpTo(S, n) ==
    IF n = 0 THEN {<<>>}
    ELSE LET shorter == SeqsUpTo(S, n - 1)
         IN  shorter \cup {Append(q, x) : q \in {r \in shorter : Len(r) = n - 1}, x \in S}

StackShapes(maxFrames, maxSuspended) ==
    {MkStacks(alen, slens) : alen \in 1..maxFrames,
                             slens \in SeqsUpTo(1..maxFrames, maxSuspended)}

NoStacks == [active |-> <<>>, suspended |-> <<>>]

\* the call stacks the VM is paused with in Spec
PauseSnapshots == {MkStacks(1, <<>>), MkStacks(2, <<1>>)}


(***************************************************************************)
(* State                                                                   *)
(***************************************************************************)
VARIABLES
    stream,                 \* ServerStream: "Waiting", "Connected", "Disconnected"
    connection,             \* the connection channel: TRUE when a stream is waiting in it
    socket_ok,              \* environment: writes to the socket succeed
    should_catch_runtimes,  \* Server.should_catch_runtimes
    mode,                   \* where the main thread is: "Connecting", "Handshake",
                            \* "Idle", "Paused", or "Dropped" once the Server is destroyed
    stacks,                 \* State.stacks of the live session (NoStacks when none)
    variables,              \* State.variables
    variables_to_refs,      \* State.variables_to_refs
    sent,                   \* responses written to the socket by the last operation
    teardowns,              \* number of times disconnect() wrote its Disconnect frame
    panic,                  \* "none", or the panic that ended the main thread
    last_req,               \* the request or call the last operation serviced
    ret,                    \* the value the last operation returned
    ref_log,                \* history: <<kind, handle>> pairs get_ref returned this session
    intern_order,           \* history: kinds in order of their first get_ref this session
    stale_refs,             \* history: handles issued by earlier sessions
    procs,                  \* the VM's procs: ProcRef -> instruction stream
    hooked,                 \* instruction_hooking: ProcRef -> set of hooked offsets
    dism_hooked,            \* history: hooks installed when the proc was last disassembled
    requests,               \* the requests channel: requests sent and not yet received
    thread,                 \* the networking thread: "Accepting", "Running", "Finished"
    arrived,                \* history: the frames the networking thread read, in order
    dequeued,               \* history: the requests the main thread received, in order,
                            \* each with the state the main thread received it in
    events,                 \* history: what the handle_breakpoint call in progress, or the
                            \* one that just returned, did, in order
    library                 \* the auxtools library: GLOBAL_STATE and what auxtools_init
                            \* has set up

vars == <<stream, connection, socket_ok, should_catch_runtimes, mode, stacks,
          variables, variables_to_refs, sent, teardowns, panic, last_req, ret,
          ref_log, intern_order, stale_refs, procs, hooked, dism_hooked,
          requests, thread, arrived, dequeued, events, library>>

\* the channels, the networking thread and the histories kept about them
net == <<requests, thread, arrived, dequeued, events>>

\* the library before auxtools_init: GLOBAL_STATE (a OnceCell) is empty.
\* sets counts the GLOBAL_STATE.set calls that stored a value, calls the
\* auxtools_init calls made.
NotLoaded ==
    [global_state |-> None, hooks_initialized |-> FALSE,
     procs_populated |-> FALSE, wew_hooked |-> FALSE, sets |-> 0, calls |-> 0]

EmptyMap == [k \in {} |-> 0]

(***************************************************************************)
(* State::get_ref / State::get_variables                                   *)
(***************************************************************************)
\* faulty variant: allocates a new handle on every call
get_ref_no_lookup(vs, v2r, kind) ==
    LET reference == Len(vs) + 1
    IN  [ref |-> reference,
         variables |-> Append(vs, kind),
         variables_to_refs |-> [k \in DOMAIN v2r \cup {kind} |->
                                   IF k = kind THEN reference ELSE v2r[k]]]

\* faulty variant: handles count from 0
get_ref_from_zero(vs, v2r, kind) ==
    IF kind \in DOMAIN v2r
    THEN [ref |-> v2r[kind], variables |-> vs, variables_to_refs |-> v2r]
    ELSE LET reference == Len(vs)
         IN  [ref |-> reference,
              variables |-> Append(vs, kind),
              variables_to_refs |-> [k \in DOMAIN v2r \cup {kind} |->
                                        IF k = kind THEN reference ELSE v2r[k]]]

\* faulty variant: handles come from a counter that outlives the session
get_ref_global_counter(vs, v2r, kind) ==
    IF kind \in DOMAIN v2r
    THEN [ref |-> v2r[kind], variables |-> vs, variables_to_refs |-> v2r]
    ELSE LET reference == Cardinality(stale_refs) + Len(vs) + 1
         IN  [ref |-> reference,
              variables |-> Append(vs, kind),
              variables_to_refs |-> [k \in DOMAIN v2r \cup {kind} |->
                                        IF k = kind THEN reference ELSE v2r[k]]]

get_ref(vs, v2r, kind) ==
    IF kind \in DOMAIN v2r
    THEN [ref |-> v2r[kind], variables |-> vs, variables_to_refs |-> v2r]
    ELSE LET reference == Len(vs) + 1
         IN  [ref |-> reference,
              variables |-> Append(vs, kind),
              variables_to_refs |-> [k \in DOMAIN v2r \cup {kind} |->
                                        IF k = kind THEN reference ELSE v2r[k]]]

\* Vec::get
VecGet(vs, index) == IF index >= 0 /\ index < Len(vs) THEN Some(vs[index + 1]) ELSE None

SubOverflow == "attempt to subtract with overflow"

\* The outcomes of get_variables: `reference.0 as usize - 1` underflows for
\* handle 0, which panics where overflow checks are compiled in and wraps to
\* usize::MAX where they are not.
get_variables(vs, reference) ==
    LET u == AsUsize(reference)
    IN  IF u = 0
        THEN {[panic |-> SubOverflow, kind |-> None],
              [panic |-> "none", kind |-> VecGet(vs, UsizeModulus - 1)]}
        ELSE {[panic |-> "none", kind |-> VecGet(vs, u - 1)]}

\* State::new(): a snapshot of the call stacks and an empty table
State_new(snapshot) ==
    [stacks |-> snapshot, variables |-> <<>>, variables_to_refs |-> EmptyMap]

(***************************************************************************)
(* The main thread's mutable state, threaded through a handler's steps     *)
(***************************************************************************)
Cur ==
    [stream |-> stream, connection |-> connection, sent |-> <<>>,
     teardowns |-> teardowns, panic |-> "none",
     should_catch_runtimes |-> should_catch_runtimes,
     variables |-> variables, variables_to_refs |-> variables_to_refs,
     ref_log |-> ref_log, intern_order |-> intern_order,
     hooked |-> hooked, dism_hooked |-> dism_hooked]

Commit(s) ==
    /\ stream' = s.stream
    /\ connection' = s.connection
    /\ sent' = s.sent
    /\ teardowns' = s.teardowns
    /\ panic' = s.panic
    /\ should_catch_runtimes' = s.should_catch_runtimes
    /\ variables' = s.variables
    /\ variables_to_refs' = s.variables_to_refs
    /\ ref_log' = s.ref_log
    /\ intern_order' = s.intern_order
    /\ hooked' = s.hooked
    /\ dism_hooked' = s.dism_hooked

Panicked(s) == s.panic # "none"
Raise(s, message) == IF Panicked(s) THEN s ELSE [s EXCEPT !.panic = message]

NotConnected == "unreachable: Debug Server is not connected"
UnwrapNone == "called Option::unwrap() on a None value"
UnwrapErr == "called Result::unwrap() on an Err value"

(***************************************************************************)
(* Server::disconnect / send_or_disconnect / check_connected / notify      *)
(***************************************************************************)
\* faulty variant: the Disconnect frame is written whatever the stream is
disconnect_unguarded(s) ==
    [s EXCEPT !.teardowns = @ + 1, !.stream = "Disconnected"]

disconnect(s) ==
    IF s.stream = "Connected"
    THEN [s EXCEPT !.teardowns = @ + 1, !.stream = "Disconnected"]
    ELSE [s EXCEPT !.stream = "Disconnected"]

send_or_disconnect(s, response) ==
    IF Panicked(s) THEN s
    ELSE IF s.stream = "Connected"
         THEN IF socket_ok
              THEN [s EXCEPT !.sent = Append(@, response)]
              ELSE disconnect(s)
         ELSE Raise(s, NotConnected)

\* faulty variant: a stream that still waits for the handoff counts as connected
check_connected_while_waiting(s) ==
    CASE s.stream = "Disconnected" -> [s |-> s, ok |-> FALSE]
      [] s.stream = "Connected" -> [s |-> s, ok |-> TRUE]
      [] s.stream = "Waiting" ->
            IF s.connection
            THEN [s |-> [s EXCEPT !.stream = "Connected", !.connection = FALSE],
                  ok |-> TRUE]
            ELSE [s |-> s, ok |-> TRUE]

check_connected(s) ==
    CASE s.stream = "Disconnected" -> [s |-> s, ok |-> FALSE]
      [] s.stream = "Connected" -> [s |-> s, ok |-> TRUE]
      [] s.stream = "Waiting" ->
            IF s.connection
            THEN [s |-> [s EXCEPT !.stream = "Connected", !.connection = FALSE],
                  ok |-> TRUE]
            ELSE [s |-> s, ok |-> FALSE]

Notification(message) == [type |-> "Notification", message |-> message]

notify(s, message) ==
    IF Panicked(s) THEN s
    ELSE LET c == check_connected(s)
         IN  IF ~c.ok THEN c.s
             ELSE send_or_disconnect(c.s, Notification(message))

(***************************************************************************)
(* Frame & Stack Resolver                                                  *)
(***************************************************************************)
get_stack(st, stack_id) ==
    IF stack_id = 0 THEN Some(st.active)
    ELSE VecGet(st.suspended, stack_id - 1)

SliceOutOfRange == "range end index out of range for slice"

RECURSIVE SumLens(_, _)
SumLens(ss, n) == IF n = 0 THEN 0 ELSE SumLens(ss, n - 1) + Len(ss[n])

\* faulty variant: the length of the target stack is added too
get_stack_base_frame_id_inclusive(st, stack_id) ==
    IF stack_id = 0 THEN [panic |-> "none", value |-> 0]
    ELSE IF stack_id > Len(st.suspended)
         THEN [panic |-> SliceOutOfRange, value |-> 0]
         ELSE [panic |-> "none",
               value |-> Len(st.active) + SumLens(st.suspended, stack_id)]

get_stack_base_frame_id(st, stack_id) ==
    IF stack_id = 0 THEN [panic |-> "none", value |-> 0]
    ELSE IF stack_id - 1 > Len(st.suspended)
         THEN [panic |-> SliceOutOfRange, value |-> 0]
         ELSE [panic |-> "none",
               value |-> Len(st.active) + SumLens(st.suspended, stack_id - 1)]

\* A found frame is a reference into the snapshot: which stack, which index
FrameRef(stack_id, index, frame) ==
    [stack |-> stack_id, index |-> index, frame |-> frame]

RECURSIVE WalkSuspended(_, _, _)
WalkSuspended(suspended, n, frame_index) ==
    IF n > Len(suspended) THEN None
    ELSE IF frame_index < Len(suspended[n])
         THEN Some(FrameRef(n, frame_index, suspended[n][frame_index + 1]))
         ELSE WalkSuspended(suspended, n + 1, frame_index - Len(suspended[n]))

\* faulty variant: the active length is not subtracted before the suspended stacks
get_stack_frame_no_subtract(st, frame_index) ==
    IF frame_index < Len(st.active)
    THEN Some(FrameRef(0, frame_index, st.active[frame_index + 1]))
    ELSE WalkSuspended(st.suspended, 1, frame_index)

get_stack_frame(st, frame_index) ==
    IF frame_index < Len(st.active)
    THEN Some(FrameRef(0, frame_index, st.active[frame_index + 1]))
    ELSE WalkSuspended(st.suspended, 1, frame_index - Len(st.active))


(***************************************************************************)
(* Variable Materializer.  A frame's values are in the snapshot; what a     *)
(* list or an object holds is the VM's, read when it is expanded, and an   *)
(* input of the handler.                                                   *)
(***************************************************************************)
should_show_internals == TRUE

Variable(name, n, reference) == [name |-> name, n |-> n, variables |-> reference]

\* state.get_ref(kind), with the history of what it returned
Intern(s, kind) ==
    LET r == get_ref(s.variables, s.variables_to_refs, kind)
    IN  [s |-> [s EXCEPT !.variables = r.variables,
                         !.variables_to_refs = r.variables_to_refs,
                         !.ref_log = @ \cup {<<kind, r.ref>>},
                         !.intern_order =
                             IF \E i \in 1..Len(@) : @[i] = kind THEN @
                             ELSE Append(@, kind)],
         ref |-> r.ref]

value_to_variable(s, name, n, value) ==
    IF IsList(value)
    THEN LET g == Intern(s, ListContents(value))
         IN  [s |-> g.s, var |-> Variable(name, n, Some(g.ref))]
    ELSE IF is_object(value)
         THEN LET g == Intern(s, ObjectVars(value))
              IN  [s |-> g.s, var |-> Variable(name, n, Some(g.ref))]
         ELSE [s |-> s, var |-> Variable(name, n, None)]

\* value_to_variable over values[i..], each named name #i
RECURSIVE values_to_variables(_, _, _, _, _)
values_to_variables(s, name, values, i, acc) ==
    IF i > Len(values) THEN [s |-> s, vars |-> acc]
    ELSE LET r == value_to_variable(s, name, i, values[i])
         IN  values_to_variables(r.s, name, values, i + 1, Append(acc, r.var))

\* the loop over frame.args: an unnamed argument is labelled with a counter
RECURSIVE args_to_variables(_, _, _, _, _)
args_to_variables(s, args, i, unnamed_count, acc) ==
    IF i > Len(args) THEN [s |-> s, vars |-> acc]
    ELSE IF args[i].named
         THEN LET r == value_to_variable(s, "arg", i, args[i].value)
              IN  args_to_variables(r.s, args, i + 1, unnamed_count,
                                    Append(acc, r.var))
         ELSE LET r == value_to_variable(s, "undefined argument #",
                                         unnamed_count + 1, args[i].value)
              IN  args_to_variables(r.s, args, i + 1, unnamed_count + 1,
                                    Append(acc, r.var))

\* faulty variant: the internals entry is interned for an unknown frame too
get_args_internals_always(s, st, frame_index) ==
    LET found == get_stack_frame(st, frame_index)
    IN  IF IsSome(found)
        THEN LET frame == Unwrap(found).frame
                 a == value_to_variable(s, "src", 0, frame.src)
                 b == value_to_variable(a.s, "usr", 0, frame.usr)
                 c == args_to_variables(b.s, frame.args, 1, 0, <<a.var, b.var>>)
                 g == Intern(c.s, Internals(frame_index))
             IN  [s |-> g.s,
                  vars |-> Append(c.vars, Variable("BYOND Internals", 0, Some(g.ref)))]
        ELSE LET g == Intern(notify(s, "tried to read arguments from invalid frame id"),
                             Internals(frame_index))
             IN  [s |-> g.s,
                  vars |-> <<Variable("BYOND Internals", 0, Some(g.ref))>>]

get_args(s, st, frame_index) ==
    LET found == get_stack_frame(st, frame_index)
    IN  IF IsSome(found)
        THEN LET frame == Unwrap(found).frame
                 a == value_to_variable(s, "src", 0, frame.src)
                 b == value_to_variable(a.s, "usr", 0, frame.usr)
                 c == args_to_variables(b.s, frame.args, 1, 0, <<a.var, b.var>>)
             IN  IF should_show_internals
                 THEN LET g == Intern(c.s, Internals(frame_index))
                      IN  [s |-> g.s,
                           vars |-> Append(c.vars,
                                           Variable("BYOND Internals", 0, Some(g.ref)))]
                 ELSE c
        ELSE [s |-> notify(s, "tried to read arguments from invalid frame id"),
              vars |-> <<>>]

get_locals(s, st, frame_index) ==
    LET found == get_stack_frame(st, frame_index)
    IN  IF IsSome(found)
        THEN LET frame == Unwrap(found).frame
                 a == value_to_variable(s, ".", 0, frame.dot)
             IN  values_to_variables(a.s, "local", frame.locals, 1, <<a.var>>)
        ELSE [s |-> notify(s, "tried to read locals from invalid frame id"),
              vars |-> <<>>]

get_vm_stack(s, st, frame_index) ==
    LET found == get_stack_frame(st, frame_index)
    IN  IF IsSome(found)
        THEN values_to_variables(s, "[]", Unwrap(found).frame.stack, 1, <<>>)
        ELSE [s |-> notify(s, "tried to read vm stack from invalid frame id"),
              vars |-> <<>>]

\* list_to_variables: an entry with a non-null associated value is an assoc
\* entry; read.ok = FALSE is a runtime raised after the entries read so far
RECURSIVE list_entries(_, _, _, _)
list_entries(s, entries, i, acc) ==
    IF i > Len(entries) THEN [s |-> s, vars |-> acc]
    ELSE IF entries[i].value.tag # "Null"
         THEN LET g == Intern(s, ListPair(entries[i].key, entries[i].value))
              IN  list_entries(g.s, entries, i + 1,
                               Append(acc, Variable("[]", i, Some(g.ref))))
         ELSE LET r == value_to_variable(s, "[]", i, entries[i].key)
              IN  list_entries(r.s, entries, i + 1, Append(acc, r.var))

list_to_variables(s, read) ==
    LET r == list_entries(s, read.entries, 1, <<>>)
    IN  [s |-> r.s, ok |-> read.ok, vars |-> IF read.ok THEN r.vars ELSE <<>>]

\* object_to_variables: the fields in the order of the response
object_to_variables(s, read) ==
    LET r == values_to_variables(s, "field", read.vals, 1, <<>>)
    IN  [s |-> r.s, ok |-> read.ok, vars |-> IF read.ok THEN r.vars ELSE <<>>]

\* an entry of a list: its key and the value associated with it (null when
\* the entry is not an association)
Entry(key, value) == [key |-> key, value |-> value]

\* what list_to_variables can read from a list
ListReads ==
    [entries : {<<>>,
                <<Entry(MkValue("List", 1), NullValue)>>,
                <<Entry(NullValue, MkValue("Datum", 1))>>,
                <<Entry(MkValue("Datum", 1), NullValue),
                  Entry(MkValue("List", 1), MkValue("Datum", 1))>>},
     ok : BOOLEAN]

\* what object_to_variables can read from an object: the values of its fields
ObjectReads ==
    [vals : {<<>>,
             <<NullValue>>,
             <<Globals>>,
             <<MkValue("Datum", 1), MkValue("List", 1)>>},
     ok : BOOLEAN]

\* what the VM can hand to the expansion of a kind
ReadsFor(kind) ==
    CASE kind.kind = "ListContents" -> ListReads
      [] kind.kind = "ObjectVars" -> ObjectReads
      [] OTHER -> {[ok |-> TRUE]}

VariablesResponse(vs) == [type |-> "Variables", vars |-> vs]

(***************************************************************************)
(* Server::handle_scopes / Server::handle_variables                        *)
(***************************************************************************)
handle_scopes(s, frame_id) ==
    LET a == Intern(s, Arguments(frame_id))
        l == Intern(a.s, Locals(frame_id))
        g == Intern(l.s, ObjectVars(Globals))
    IN  send_or_disconnect(g.s, [type |-> "Scopes", arguments |-> Some(a.ref),
                                 locals |-> Some(l.ref), globals |-> Some(g.ref)])

expand_variables(s, st, kind, read) ==
    CASE kind.kind = "Arguments" -> get_args(s, st, kind.frame)
      [] kind.kind = "Locals" -> get_locals(s, st, kind.frame)
      [] kind.kind = "ObjectVars" ->
            LET r == object_to_variables(s, read)
            IN  IF r.ok THEN [s |-> r.s, vars |-> r.vars]
                ELSE [s |-> notify(r.s, "runtime occured while processing Variables request"),
                      vars |-> <<>>]
      [] kind.kind = "ListContents" ->
            LET r == list_to_variables(s, read)
            IN  IF r.ok THEN [s |-> r.s, vars |-> r.vars]
                ELSE [s |-> notify(r.s, "runtime occured while processing Variables request"),
                      vars |-> <<>>]
      [] kind.kind = "ListPair" ->
            LET k == value_to_variable(s, "key", 0, MkValue(kind.tag, kind.data))
                v == value_to_variable(k.s, "value", 0, MkValue(kind.tag2, kind.data2))
            IN  [s |-> v.s, vars |-> <<k.var, v.var>>]
      [] kind.kind = "Internals" ->
            LET g == Intern(s, Stack(kind.frame))
            IN  IF IsSome(get_stack_frame(st, kind.frame))
                THEN LET stack_data == Unwrap(get_stack_frame(st, kind.frame)).frame
                         c == value_to_variable(g.s, "Cache", 0, stack_data.cache)
                     IN  [s |-> c.s,
                          vars |-> <<Variable("Stack", 0, Some(g.ref)), c.var>>]
                ELSE [s |-> Raise(g.s, UnwrapNone), vars |-> <<>>]
      [] kind.kind = "Stack" -> get_vm_stack(s, st, kind.frame)

UnknownRef == "received unknown VariableRef in Variables request"

\* found: the outcome of state.get_variables(vars)
handle_variables(s, st, found, read) ==
    IF found.panic # "none" THEN Raise(s, found.panic)
    ELSE IF IsSome(found.kind)
         THEN LET r == expand_variables(s, st, Unwrap(found.kind), read)
              IN  send_or_disconnect(r.s, VariablesResponse(r.vars))
         ELSE send_or_disconnect(notify(s, UnknownRef), VariablesResponse(<<>>))


(***************************************************************************)
(* Procs and their disassembly                                             *)
(***************************************************************************)
Op(offset) == [offset |-> offset, op |-> "Op", line |-> 0]
DbgLine(offset, line) == [offset |-> offset, op |-> "DbgLine", line |-> line]

ProcRef(path, override_id) == [path |-> path, override_id |-> override_id]
Foo == ProcRef("/proc/foo", 0)
Bar == ProcRef("/proc/bar", 0)
Missing == ProcRef("/proc/missing", 0)
ProcRefs == {Foo, Bar, Missing}

\* the stream of the line-scan example
ExampleStream == <<DbgLine(0, 10), Op(2), DbgLine(4, 12), Op(6)>>

DefaultProcs == [p \in {Foo, Bar} |->
                    IF p = Foo THEN ExampleStream ELSE <<DbgLine(0, 10), Op(2)>>]

\* auxtools::Proc::find_override
find_override(ps, proc) == IF proc \in DOMAIN ps THEN Some(proc) ELSE None

\* Server::get_line_number: the scan from instruction i on
RECURSIVE line_scan(_, _, _, _)
line_scan(dism, offset, i, current_line_number) ==
    IF i > Len(dism) THEN None
    ELSE IF dism[i].offset > offset THEN current_line_number
    ELSE LET line == IF dism[i].op = "DbgLine" THEN Some(dism[i].line)
                     ELSE current_line_number
         IN  IF dism[i].offset = offset THEN line
             ELSE line_scan(dism, offset, i + 1, line)

\* faulty variant: the line is returned whether or not the scan reached the offset
RECURSIVE line_scan_unchecked(_, _, _, _)
line_scan_unchecked(dism, offset, i, current_line_number) ==
    IF i > Len(dism) THEN current_line_number
    ELSE IF dism[i].offset > offset THEN current_line_number
    ELSE LET line == IF dism[i].op = "DbgLine" THEN Some(dism[i].line)
                     ELSE current_line_number
         IN  IF dism[i].offset = offset THEN line
             ELSE line_scan_unchecked(dism, offset, i + 1, line)

get_line_number_unchecked(ps, proc, offset) ==
    IF IsSome(find_override(ps, proc))
    THEN line_scan_unchecked(ps[proc], offset, 1, None)
    ELSE None

get_line_number(ps, proc, offset) ==
    IF IsSome(find_override(ps, proc))
    THEN line_scan(ps[proc], offset, 1, None)
    ELSE None

\* Server::get_offset: the scan from instruction i on
RECURSIVE offset_scan(_, _, _, _)
offset_scan(dism, line, i, at_offset) ==
    IF i > Len(dism) THEN None
    ELSE IF at_offset THEN Some(dism[i].offset)
    ELSE offset_scan(dism, line, i + 1,
                     dism[i].op = "DbgLine" /\ dism[i].line = line)

\* faulty variant: the address of the line marker itself is returned
RECURSIVE offset_scan_marker(_, _, _)
offset_scan_marker(dism, line, i) ==
    IF i > Len(dism) THEN None
    ELSE IF dism[i].op = "DbgLine" /\ dism[i].line = line THEN Some(dism[i].offset)
    ELSE offset_scan_marker(dism, line, i + 1)

get_offset_of_marker(ps, proc, line) ==
    IF IsSome(find_override(ps, proc))
    THEN offset_scan_marker(ps[proc], line, 1)
    ELSE None

get_offset(ps, proc, line) ==
    IF IsSome(find_override(ps, proc))
    THEN offset_scan(ps[proc], line, 1, FALSE)
    ELSE None

NoHooks == [p \in ProcRefs |-> {}]
NoDism == [proc |-> Missing, before |-> {}, during |-> {}]

(***************************************************************************)
(* Spec: handle_breakpoint and the Paused loop                             *)
(***************************************************************************)
ContinueKinds == {"Continue", "StepOver", "StepInto", "StepOut"}
BreakpointReasons == {"Breakpoint", "Step", "Pause", "Runtime"}
NoRet == "-"
NoReq == [type |-> "-"]

\* Server::connect has returned: connected, configured, no session
InitServer ==
    /\ stream = "Connected"
    /\ connection = FALSE
    /\ socket_ok = TRUE
    /\ should_catch_runtimes = TRUE
    /\ variables = <<>>
    /\ variables_to_refs = EmptyMap
    /\ sent = <<>>
    /\ teardowns = 0
    /\ panic = "none"
    /\ last_req = NoReq
    /\ ret = NoRet
    /\ ref_log = {}
    /\ intern_order = <<>>
    /\ stale_refs = {}
    /\ hooked = NoHooks
    /\ dism_hooked = NoDism
    /\ requests = <<>>
    /\ thread = "Running"
    /\ arrived = <<>>
    /\ dequeued = <<>>
    /\ events = <<>>
    /\ library = NotLoaded

Init ==
    /\ InitServer
    /\ mode = "Idle"
    /\ stacks = NoStacks
    /\ procs = DefaultProcs

Alive == panic = "none"

\* the table explored stays within MaxRefs entries
Within(s) == Len(s.variables) <= MaxRefs

\* Server::handle_breakpoint up to the start of its request loop
HandleBreakpoint(reason, snapshot) ==
    /\ Alive
    /\ mode = "Idle"
    /\ last_req' = [type |-> "handle_breakpoint", reason |-> reason]
    /\ LET c == check_connected(Cur)
       IN  IF ~c.ok \/ (reason = "Runtime" /\ ~c.s.should_catch_runtimes)
           THEN /\ Commit(c.s)
                /\ ret' = "Continue"
                /\ UNCHANGED <<mode, stacks>>
           ELSE LET n == notify(c.s, "Pausing execution")
                    state == State_new(snapshot)
                    b == send_or_disconnect(
                            [n EXCEPT !.variables = state.variables,
                                      !.variables_to_refs = state.variables_to_refs,
                                      !.ref_log = {},
                                      !.intern_order = <<>>],
                            [type |-> "BreakpointHit", reason |-> reason])
                IN  /\ Commit(b)
                    /\ stacks' = state.stacks
                    /\ mode' = IF Panicked(b) THEN mode ELSE "Paused"
                    /\ ret' = NoRet
    /\ UNCHANGED <<socket_ok, stale_refs, procs, library, net>>

\* the loop dequeues Continue: acknowledge, drop the session, return the kind
PausedContinue(kind) ==
    /\ Alive
    /\ mode = "Paused"
    /\ last_req' = [type |-> "Continue", kind |-> kind]
    /\ LET a == send_or_disconnect(Cur, [type |-> "Ack"])
       IN  IF Panicked(a)
           THEN /\ Commit(a)
                /\ UNCHANGED <<mode, stacks, ret, stale_refs>>
           ELSE /\ Commit([a EXCEPT !.variables = <<>>,
                                    !.variables_to_refs = EmptyMap,
                                    !.ref_log = {},
                                    !.intern_order = <<>>])
                /\ mode' = "Idle"
                /\ stacks' = NoStacks
                /\ ret' = kind
                /\ stale_refs' = stale_refs \cup {p[2] : p \in ref_log}
    /\ UNCHANGED <<socket_ok, procs, library, net>>

\* a handler of the Paused loop ran to s
PausedStep(request, s) ==
    /\ Within(s)
    /\ last_req' = request
    /\ Commit(s)
    /\ UNCHANGED <<socket_ok, mode, stacks, ret, stale_refs, procs, library, net>>

PausedScopes(frame_id) ==
    /\ Alive
    /\ mode = "Paused"
    /\ PausedStep([type |-> "Scopes", frame_id |-> frame_id],
                  handle_scopes(Cur, frame_id))

PausedVariables(reference) ==
    /\ Alive
    /\ mode = "Paused"
    /\ \E found \in get_variables(variables, reference) :
         \E read \in IF IsSome(found.kind) THEN ReadsFor(Unwrap(found.kind))
                     ELSE {[ok |-> TRUE]} :
            PausedStep([type |-> "Variables", vars |-> reference],
                       handle_variables(Cur, stacks, found, read))

PausedCatchRuntimes(should_catch) ==
    /\ Alive
    /\ mode = "Paused"
    /\ PausedStep([type |-> "CatchRuntimes", should_catch |-> should_catch],
                  [Cur EXCEPT !.should_catch_runtimes = should_catch])

\* Pause while paused: acknowledged, the returned flag is ignored
PausedPause ==
    /\ Alive
    /\ mode = "Paused"
    /\ PausedStep([type |-> "Pause"], send_or_disconnect(Cur, [type |-> "Ack"]))

Refs == (-1)..(MaxRefs + 1)

Next ==
    \/ \E reason \in BreakpointReasons :
         \E snapshot \in PauseSnapshots :
            HandleBreakpoint(reason, snapshot)
    \/ \E kind \in ContinueKinds : PausedContinue(kind)
    \/ \E frame_id \in FrameIds : PausedScopes(frame_id)
    \/ \E reference \in Refs : PausedVariables(reference)
    \/ \E should_catch \in BOOLEAN : PausedCatchRuntimes(should_catch)
    \/ PausedPause

Spec == Init /\ [][Next]_vars


(***************************************************************************)
(* Session State and Variable Reference Table                              *)
(***************************************************************************)
Handles(log) == {p[2] : p \in log}
KindsOf(log) == {p[1] : p \in log}

\* C1: within one Session State get_ref is idempotent and injective: over
\* all the get_ref calls of the session, calls with equal kinds returned the
\* same handle and calls with unequal kinds returned different handles.
C1_GetRefIdempotentInjective ==
    \A p \in ref_log : \A q \in ref_log : (p[1] = q[1]) <=> (p[2] = q[2])

\* Scopes was serviced again on a table that already held its three kinds
\* and a fourth: all three get_ref calls repeated an earlier kind
C1_Witness ==
    /\ mode = "Paused"
    /\ last_req.type = "Scopes"
    /\ Len(variables) = 4
    /\ Len(sent) = 1
    /\ sent[1].arguments = Some(1)
    /\ sent[1].globals = Some(3)

\* C2: handle allocation in a session is monotonic from 1 and stable: the
\* k-th distinct kind interned has handle k, the handles allocated are
\* exactly 1..n for n distinct kinds, and get_variables of an allocated
\* handle is the kind it was allocated for, in every later state of the
\* session.
C2_HandlesDenseAndStable ==
    /\ \A k \in 1..Len(intern_order) : <<intern_order[k], k>> \in ref_log
    /\ Handles(ref_log) = 1..Cardinality(KindsOf(ref_log))
    /\ \A p \in ref_log :
          \A found \in get_variables(variables, p[2]) :
             found.panic = "none" /\ found.kind = Some(p[1])

\* four distinct kinds interned, and a Variables request resolved handle 4
C2_Witness ==
    /\ mode = "Paused"
    /\ Cardinality(KindsOf(ref_log)) = 4
    /\ last_req.type = "Variables"
    /\ last_req.vars = 4
    /\ panic = "none"

\* C3 as claimed: a handle value issued in one session is never issued by a
\* later session, and a stale handle never resolves in a later pause.
C3_NeverReusedAcrossSessions ==
    /\ Handles(ref_log) \cap stale_refs = {}
    /\ \A h \in stale_refs :
          \A found \in get_variables(variables, h) : found.kind = None

\* C3 amended: no mapping is carried across sessions.  While no session is
\* live the table is empty; every session allocates from 1 again whatever
\* earlier sessions issued; and a handle resolves only to the kind for which
\* get_ref returned that handle in the current session.
C3_FreshTablePerSession ==
    /\ mode = "Idle" => variables = <<>> /\ variables_to_refs = EmptyMap
    /\ ref_log # {} => 1 \in Handles(ref_log)
    /\ \A h \in Refs \cup stale_refs :
          \A found \in get_variables(variables, h) :
             IsSome(found.kind) => <<Unwrap(found.kind), h>> \in ref_log

\* a later session has issued handle 1 again, which an earlier one had issued
C3_Witness ==
    /\ mode = "Paused"
    /\ 1 \in stale_refs
    /\ 1 \in Handles(ref_log)
    /\ last_req.type = "Variables"
    /\ last_req.vars = 1
    /\ Len(sent) = 1
    /\ sent[1].type = "Variables"

\* C4 as claimed: a Variables request with a handle that is not allocated
\* in the session (0, negative, or above the number of interned kinds) is
\* answered with a Notification and an empty Variables list, and is never a
\* hard failure.
C4_UnknownHandleNeverFails ==
    (/\ last_req.type = "Variables"
     /\ last_req.vars \notin 1..Len(variables)
     /\ stream = "Connected")
    => /\ panic = "none"
       /\ sent = <<Notification(UnknownRef), VariablesResponse(<<>>)>>


(***************************************************************************)
(* SpecResolver: the Frame/Stack Resolver applied to a CallStacks snapshot *)
(***************************************************************************)
InitResolver ==
    /\ InitServer
    /\ mode = "Paused"
    /\ stacks \in StackShapes(MaxFrames, MaxSuspended)
    /\ procs = DefaultProcs

StackIds == 0..(MaxSuspended + 1)
GlobalFrameIds == 0..(MaxFrames * (MaxSuspended + 1) + 1)

\* a resolver call returned r
Resolved(call, r, p) ==
    /\ last_req' = call
    /\ ret' = r
    /\ panic' = p
    /\ UNCHANGED <<stream, connection, socket_ok, should_catch_runtimes, mode,
                   stacks, variables, variables_to_refs, sent, teardowns,
                   ref_log, intern_order, stale_refs, procs, library, hooked, dism_hooked,
                   net>>

ResolveStack(stack_id) ==
    /\ Alive
    /\ mode = "Paused"
    /\ Resolved([type |-> "get_stack", stack_id |-> stack_id],
                get_stack(stacks, stack_id), "none")

ResolveBase(stack_id) ==
    /\ Alive
    /\ mode = "Paused"
    /\ LET r == get_stack_base_frame_id(stacks, stack_id)
       IN  Resolved([type |-> "get_stack_base_frame_id", stack_id |-> stack_id],
                    r.value, r.panic)

ResolveFrame(frame_index) ==
    /\ Alive
    /\ mode = "Paused"
    /\ Resolved([type |-> "get_stack_frame", frame_index |-> frame_index],
                get_stack_frame(stacks, frame_index), "none")

NextResolver ==
    \/ \E stack_id \in StackIds : ResolveStack(stack_id)
    \/ \E stack_id \in StackIds : ResolveBase(stack_id)
    \/ \E frame_index \in GlobalFrameIds : ResolveFrame(frame_index)

SpecResolver == InitResolver /\ [][NextResolver]_vars

\* the frames of the stacks that come before stack_id in the flattening
FramesBefore(st, stack_id) ==
    {<<0, i>> : i \in 1..Len(st.active)}
        \cup UNION {{<<n, i>> : i \in 1..Len(st.suspended[n])} : n \in 1..(stack_id - 1)}

TotalFrames(st) == Cardinality(FramesBefore(st, Len(st.suspended) + 1))

\* C5: get_stack_base_frame_id is 0 for the active stack and, for a valid
\* stack_id n >= 1, the number of frames of the active stack and of the
\* suspended stacks before the n-th; with active length 3 and suspended
\* lengths [2,4] the base ids are 0, 3 and 5.
C5_BaseFrameId ==
    last_req.type = "get_stack_base_frame_id"
    => LET n == last_req.stack_id
       IN  /\ IsSome(get_stack(stacks, n))
              => /\ panic = "none"
                 /\ ret = IF n = 0 THEN 0
                          ELSE Cardinality(FramesBefore(stacks, n))
           /\ stacks = MkStacks(3, <<2, 4>>) /\ n <= 2
              => ret = (IF n = 0 THEN 0 ELSE IF n = 1 THEN 3 ELSE 5)

\* the base id of the second suspended stack of the example
C5_Witness ==
    /\ stacks = MkStacks(3, <<2, 4>>)
    /\ last_req.type = "get_stack_base_frame_id"
    /\ last_req.stack_id = 2
    /\ ret = 5

\* C6: get_stack_frame inverts the flattening: for every stack s that
\* get_stack selects and every local index i < len(s) it resolves
\* get_stack_base_frame_id(s) + i to frame i of stack s, and it resolves
\* every global id >= the total number of frames to none.
C6_FrameInverse ==
    last_req.type = "get_stack_frame"
    => LET g == last_req.frame_index
       IN  /\ \A sid \in StackIds :
                 LET stack == get_stack(stacks, sid)
                 IN  IsSome(stack)
                     => \A i \in 0..(Len(Unwrap(stack)) - 1) :
                           g = get_stack_base_frame_id(stacks, sid).value + i
                           => ret = Some(FrameRef(sid, i, Unwrap(stack)[i + 1]))
           /\ g >= TotalFrames(stacks) => ret = None

\* global frame 6 of the example: the second frame of the second suspended stack
C6_Witness ==
    /\ stacks = MkStacks(3, <<2, 4>>)
    /\ last_req.type = "get_stack_frame"
    /\ last_req.frame_index = 6
    /\ ret = Some(FrameRef(2, 1, stacks.suspended[2][2]))


(***************************************************************************)
(* SpecLines: LineNumber and Offset requests over the instruction streams  *)
(* a disassembly can produce                                               *)
(***************************************************************************)
LineNumbers == {10, 12}

Instrs(offset) == {Op(offset)} \cup {DbgLine(offset, line) : line \in LineNumbers}

\* instruction streams: addresses increase along the stream
RECURSIVE Streams(_, _)
Streams(n, from) ==
    IF n = 0 THEN {<<>>}
    ELSE {<<>>} \cup UNION {{<<ins>> \o rest : ins \in Instrs(o),
                                               rest \in Streams(n - 1, o + 1)} :
                            o \in from..MaxOffset}

InitLines ==
    /\ InitServer
    /\ mode = "Idle"
    /\ stacks = NoStacks
    /\ \E dism \in Streams(MaxInstr, 0) : procs = [p \in {Foo} |-> dism]

\* a request was serviced outside a session, with the value the response carries
Serviced(request, s, r) ==
    /\ last_req' = request
    /\ Commit(s)
    /\ ret' = r
    /\ UNCHANGED <<socket_ok, mode, stacks, stale_refs, procs, library, net>>

\* Request::LineNumber
RequestLineNumber(proc, offset) ==
    /\ Alive
    /\ LET line == get_line_number(procs, proc, offset)
       IN  Serviced([type |-> "LineNumber", proc |-> proc, offset |-> offset],
                    send_or_disconnect(Cur, [type |-> "LineNumber", line |-> line]),
                    line)

\* Request::Offset
RequestOffset(proc, line) ==
    /\ Alive
    /\ LET offset == get_offset(procs, proc, line)
       IN  Serviced([type |-> "Offset", proc |-> proc, line |-> line],
                    send_or_disconnect(Cur, [type |-> "Offset", offset |-> offset]),
                    offset)

\* the requests of SpecLines: every offset and line of the proc, and one
\* request naming a proc that does not resolve
LineQueries == {<<Foo, offset>> : offset \in 0..(MaxOffset + 1)} \cup {<<Missing, 0>>}
OffsetQueries == {<<Foo, line>> : line \in LineNumbers \cup {11}} \cup {<<Missing, 10>>}

NextLines ==
    \/ \E q \in LineQueries : RequestLineNumber(q[1], q[2])
    \/ \E q \in OffsetQueries : RequestOffset(q[1], q[2])

SpecLines == InitLines /\ [][NextLines]_vars

\* the index at which the scan for offset stops: the first instruction whose
\* address exceeds or equals offset (0 when there is none)
StopIndex(dism, offset) ==
    LET stops == {i \in 1..Len(dism) : dism[i].offset >= offset}
    IN  IF stops = {} THEN 0 ELSE CHOOSE i \in stops : \A j \in stops : i <= j

\* the line markers seen when the scan stops: those before the stopping
\* instruction, and the stopping instruction itself when it is at offset
MarkersSeen(dism, offset) ==
    LET k == StopIndex(dism, offset)
    IN  {i \in 1..k : /\ dism[i].op = "DbgLine"
                      /\ (i < k \/ dism[k].offset = offset)}

LineFor(dism, offset) ==
    LET seen == MarkersSeen(dism, offset)
    IN  IF StopIndex(dism, offset) = 0 \/ seen = {} THEN None
        ELSE Some(dism[CHOOSE i \in seen : \A j \in seen : j <= i].line)

\* C7: line_for(offset) stops at the first instruction whose address exceeds
\* or equals offset and answers the last line marker seen by then; it answers
\* none when no instruction has an address >= offset.  On the example stream
\* line_for(3) = 10, line_for(5) = 12 and line_for(7) = none.
C7_LineFor ==
    last_req.type = "LineNumber" /\ last_req.proc = Foo
    => /\ ret = LineFor(procs[Foo], last_req.offset)
       /\ sent = <<[type |-> "LineNumber", line |-> ret]>>
       /\ (\A i \in 1..Len(procs[Foo]) : procs[Foo][i].offset < last_req.offset)
             => ret = None
       /\ procs[Foo] = ExampleStream
             => /\ last_req.offset = 3 => ret = Some(10)
                /\ last_req.offset = 5 => ret = Some(12)
                /\ last_req.offset = 7 => ret = None

\* line_for(5) on the example stream
C7_Witness ==
    /\ procs[Foo] = ExampleStream
    /\ last_req.type = "LineNumber"
    /\ last_req.proc = Foo
    /\ last_req.offset = 5
    /\ ret = Some(12)

\* the first line marker equal to line (0 when there is none)
FirstMarker(dism, line) ==
    LET marks == {i \in 1..Len(dism) : dism[i].op = "DbgLine" /\ dism[i].line = line}
    IN  IF marks = {} THEN 0 ELSE CHOOSE i \in marks : \A j \in marks : i <= j

\* C8: offset_for(line) is the address of the instruction right after the
\* first line marker equal to line, and none when there is no such marker or
\* when that marker is the last instruction; offset_for(12) = 6 on the
\* example stream.
C8_OffsetFor ==
    last_req.type = "Offset" /\ last_req.proc = Foo
    => LET dism == procs[Foo]
           m == FirstMarker(dism, last_req.line)
       IN  /\ ret = IF m = 0 \/ m = Len(dism) THEN None
                    ELSE Some(dism[m + 1].offset)
           /\ sent = <<[type |-> "Offset", offset |-> ret]>>
           /\ dism = ExampleStream /\ last_req.line = 12 => ret = Some(6)

\* offset_for(12) on the example stream
C8_Witness ==
    /\ procs[Foo] = ExampleStream
    /\ last_req.type = "Offset"
    /\ last_req.proc = Foo
    /\ last_req.line = 12
    /\ ret = Some(6)


(***************************************************************************)
(* Instruction Patch Facility (instruction_hooking): hook, unhook and the  *)
(* hooked offsets of a proc.  ok is whether the facility carries the call  *)
(* out; a call that fails changes nothing.                                 *)
(***************************************************************************)
hook_instruction(h, proc, offset, ok) ==
    IF ok THEN [ok |-> TRUE, hooked |-> [h EXCEPT ![proc] = @ \cup {offset}]]
    ELSE [ok |-> FALSE, hooked |-> h]

unhook_instruction(h, proc, offset, ok) ==
    IF ok /\ offset \in h[proc]
    THEN [ok |-> TRUE, hooked |-> [h EXCEPT ![proc] = @ \ {offset}]]
    ELSE [ok |-> FALSE, hooked |-> h]

get_hooked_offsets(h, proc) == h[proc]

\* the orders in which the offsets of a set can be listed
RECURSIVE Orders(_)
Orders(S) ==
    IF S = {} THEN {<<>>}
    ELSE UNION {{<<x>> \o rest : rest \in Orders(S \ {x})} : x \in S}

(***************************************************************************)
(* Breakpoint Coordinator                                                  *)
(***************************************************************************)
InstructionRef(proc, offset) == [proc |-> proc, offset |-> offset]

BreakpointSetSuccess(line) ==
    [type |-> "BreakpointSet", result |-> "Success", line |-> line]
BreakpointSetFailed == [type |-> "BreakpointSet", result |-> "Failed", line |-> None]

\* faulty variant: the result of hook_instruction is not looked at
handle_breakpoint_set_unchecked(s, ps, instruction, hook_ok) ==
    LET line == get_line_number(ps, instruction.proc, instruction.offset)
    IN  IF IsSome(find_override(ps, instruction.proc))
        THEN LET r == hook_instruction(s.hooked, instruction.proc,
                                       instruction.offset, hook_ok)
             IN  send_or_disconnect([s EXCEPT !.hooked = r.hooked],
                                    BreakpointSetSuccess(line))
        ELSE send_or_disconnect(s, BreakpointSetFailed)

handle_breakpoint_set(s, ps, instruction, hook_ok) ==
    LET line == get_line_number(ps, instruction.proc, instruction.offset)
    IN  IF IsSome(find_override(ps, instruction.proc))
        THEN LET r == hook_instruction(s.hooked, instruction.proc,
                                       instruction.offset, hook_ok)
             IN  IF r.ok
                 THEN send_or_disconnect([s EXCEPT !.hooked = r.hooked],
                                         BreakpointSetSuccess(line))
                 ELSE send_or_disconnect([s EXCEPT !.hooked = r.hooked],
                                         BreakpointSetFailed)
        ELSE send_or_disconnect(s, BreakpointSetFailed)

handle_breakpoint_unset(s, ps, instruction, unhook_ok) ==
    IF IsSome(find_override(ps, instruction.proc))
    THEN LET r == unhook_instruction(s.hooked, instruction.proc,
                                     instruction.offset, unhook_ok)
         IN  send_or_disconnect([s EXCEPT !.hooked = r.hooked],
                                [type |-> "BreakpointUnset", success |-> r.ok])
    ELSE send_or_disconnect(s, [type |-> "BreakpointUnset", success |-> FALSE])

\* the loops of handle_disassemble over breaks[i..]; the facility fails the
\* call numbered fail_at (0: none), calls being counted from `done` on
RECURSIVE unhook_all(_, _, _, _, _)
unhook_all(s, proc, breaks, i, fail_at) ==
    IF i > Len(breaks) \/ Panicked(s) THEN s
    ELSE LET r == unhook_instruction(s.hooked, proc, breaks[i], fail_at # i)
         IN  unhook_all(IF r.ok THEN [s EXCEPT !.hooked = r.hooked]
                        ELSE Raise(s, UnwrapErr),
                        proc, breaks, i + 1, fail_at)

RECURSIVE hook_all(_, _, _, _, _)
hook_all(s, proc, breaks, i, fail_at) ==
    IF i > Len(breaks) \/ Panicked(s) THEN s
    ELSE LET r == hook_instruction(s.hooked, proc, breaks[i],
                                   fail_at # Len(breaks) + i)
         IN  hook_all(IF r.ok THEN [s EXCEPT !.hooked = r.hooked]
                      ELSE Raise(s, UnwrapErr),
                      proc, breaks, i + 1, fail_at)

\* Server::handle_disassemble.  env.order lists get_hooked_offsets in the
\* order the facility returns them; the text shows the proc as patched at
\* the time of the disassembly.
handle_disassemble(s, ps, proc, current_offset, env) ==
    IF IsSome(find_override(ps, proc))
    THEN LET breaks == env.order
             before == get_hooked_offsets(s.hooked, proc)
             u == unhook_all(s, proc, breaks, 1, env.fail_at)
             d == IF Panicked(u) THEN u
                  ELSE [u EXCEPT !.dism_hooked =
                            [proc |-> proc, before |-> before,
                             during |-> get_hooked_offsets(u.hooked, proc)]]
             h == hook_all(d, proc, breaks, 1, env.fail_at)
         IN  [s |-> h,
              text |-> [what |-> "Dism for", proc |-> proc,
                        current |-> current_offset,
                        patched |-> d.dism_hooked.during]]
    ELSE [s |-> s, text |-> [what |-> "Proc not found"]]

\* what the facility can do during a disassembly of proc
DismEnvs(h, proc) ==
    {[order |-> o, fail_at |-> f] : o \in Orders(get_hooked_offsets(h, proc)),
                                    f \in 0..(2 * Cardinality(h[proc]))}

(***************************************************************************)
(* Eval: a command is the text after '#', as clap parses it                *)
(***************************************************************************)
\* parsed: "err" (clap rejects it), "disassemble" (also its alias dis) or
\* "other"; proc and id are the values of the two optional arguments, id
\* being none too when it does not parse as a u32
Command(sharp, parsed, proc, id) ==
    [sharp |-> sharp, parsed |-> parsed, proc |-> proc, id |-> id]

handle_command(s, ps, state, frame_id, command, env) ==
    IF command.parsed = "err" THEN [s |-> s, text |-> [what |-> "clap error"]]
    ELSE IF command.parsed # "disassemble"
    THEN [s |-> s, text |-> [what |-> "unknown command"]]
    ELSE IF IsSome(command.proc)
    THEN handle_disassemble(s, ps,
                            ProcRef(Unwrap(command.proc),
                                    IF IsSome(command.id) THEN Unwrap(command.id) ELSE 0),
                            None, env)
    ELSE IF IsSome(frame_id)
    THEN IF ~IsSome(state) THEN [s |-> Raise(s, UnwrapNone), text |-> [what |-> ""]]
         ELSE LET found == get_stack_frame(Unwrap(state), Unwrap(frame_id))
              IN  IF IsSome(found)
                  THEN handle_disassemble(s, ps, Unwrap(found).frame.proc,
                                          Some(Unwrap(found).frame.offset), env)
                  ELSE [s |-> s, text |-> [what |-> "couldn't find stack frame"]]
    ELSE [s |-> s, text |-> [what |-> "no execution frame selected"]]

CannotEvaluate == "Auxtools can't currently evaluate DM"

handle_eval(s, ps, state, frame_id, command, env) ==
    IF command.sharp
    THEN LET r == handle_command(s, ps, state, frame_id, command, env)
         IN  send_or_disconnect(r.s, [type |-> "Eval", text |-> r.text])
    ELSE send_or_disconnect(s, [type |-> "Eval", text |-> [what |-> CannotEvaluate]])


(***************************************************************************)
(* SpecBreakpoints: BreakpointSet, BreakpointUnset and Eval requests       *)
(* serviced on a live connection, outside a session or inside one          *)
(***************************************************************************)
InitBreakpoints ==
    /\ InitServer
    /\ procs = DefaultProcs
    /\ \/ mode = "Idle" /\ stacks = NoStacks
       \/ mode = "Paused" /\ stacks = MkStacks(2, <<1>>)

\* the Option<&State> handle_request is called with
SessionState == IF mode = "Paused" THEN Some(stacks) ELSE None

BreakOffsets == {2, 4, 7}
\* every offset of /proc/foo, one offset of the other procs
Instructions ==
    {InstructionRef(Foo, offset) : offset \in BreakOffsets}
    \cup {InstructionRef(proc, 2) : proc \in ProcRefs \ {Foo}}

RequestBreakpointSet(instruction, hook_ok) ==
    /\ Alive
    /\ Serviced([type |-> "BreakpointSet", instruction |-> instruction,
                 hook_ok |-> hook_ok, hooked_before |-> hooked],
                handle_breakpoint_set(Cur, procs, instruction, hook_ok),
                NoRet)

RequestBreakpointUnset(instruction, unhook_ok) ==
    /\ Alive
    /\ Serviced([type |-> "BreakpointUnset", instruction |-> instruction,
                 unhook_ok |-> unhook_ok, hooked_before |-> hooked],
                handle_breakpoint_unset(Cur, procs, instruction, unhook_ok),
                NoRet)

Paths == {"/proc/foo", "/proc/bar", "/proc/missing"}

\* Eval requests: text that is no command, commands clap rejects or does not
\* know, disassemble of a named proc, disassemble of the selected frame
EvalRequests ==
    {[frame_id |-> None, command |-> c] :
        c \in {Command(FALSE, "", None, None),
               Command(TRUE, "err", None, None),
               Command(TRUE, "other", None, None)}}
    \cup {[frame_id |-> None, command |-> Command(TRUE, "disassemble", Some(path), id)] :
            path \in Paths, id \in {None, Some(0), Some(1)}}
    \cup {[frame_id |-> f, command |-> Command(TRUE, "disassemble", None, None)] :
            f \in {None, Some(0), Some(1), Some(5)}}

\* the proc an Eval request disassembles, if it gets that far
EvalTarget(request, state) ==
    LET c == request.command
    IN  IF ~c.sharp \/ c.parsed # "disassemble" THEN None
        ELSE IF IsSome(c.proc)
        THEN find_override(procs, ProcRef(Unwrap(c.proc),
                                          IF IsSome(c.id) THEN Unwrap(c.id) ELSE 0))
        ELSE IF IsSome(request.frame_id) /\ IsSome(state)
        THEN LET found == get_stack_frame(Unwrap(state), Unwrap(request.frame_id))
             IN  IF IsSome(found) THEN find_override(procs, Unwrap(found).frame.proc)
                 ELSE None
        ELSE None

RequestEval(request) ==
    /\ Alive
    /\ LET target == EvalTarget(request, SessionState)
       IN  \E env \in IF IsSome(target) THEN DismEnvs(hooked, Unwrap(target))
                      ELSE {[order |-> <<>>, fail_at |-> 0]} :
              Serviced([type |-> "Eval", frame_id |-> request.frame_id,
                        command |-> request.command, target |-> target,
                        fail_at |-> env.fail_at, hooked_before |-> hooked],
                       handle_eval(Cur, procs, SessionState, request.frame_id,
                                   request.command, env),
                       NoRet)

NextBreakpoints ==
    \/ \E instruction \in Instructions : \E hook_ok \in BOOLEAN :
          RequestBreakpointSet(instruction, hook_ok)
    \/ \E instruction \in Instructions : \E unhook_ok \in BOOLEAN :
          RequestBreakpointUnset(instruction, unhook_ok)
    \/ \E request \in EvalRequests : RequestEval(request)

SpecBreakpoints == InitBreakpoints /\ [][NextBreakpoints]_vars

\* C9: a BreakpointSet request is answered with exactly one BreakpointSet
\* response; it is Success{line} exactly when the proc resolves and the
\* patch facility installs the trap, the offset is then hooked and line is
\* the source line of the offset; otherwise it is Failed and the installed
\* traps are what they were before the request.
C9_BreakpointSet ==
    last_req.type = "BreakpointSet"
    => LET ins == last_req.instruction
           installed == ins.proc \in DOMAIN procs /\ last_req.hook_ok
       IN  /\ Len(sent) = 1
           /\ sent[1].type = "BreakpointSet"
           /\ sent[1].result = "Success" <=> installed
           /\ installed
              => /\ ins.offset \in hooked[ins.proc]
                 /\ hooked = [last_req.hooked_before EXCEPT
                                 ![ins.proc] = @ \cup {ins.offset}]
                 /\ sent[1].line = LineFor(procs[ins.proc], ins.offset)
           /\ ~installed
              => /\ sent[1] = BreakpointSetFailed
                 /\ hooked = last_req.hooked_before

\* a trap was installed at offset 2 of /proc/foo, which is on line 10
C9_Witness ==
    /\ last_req.type = "BreakpointSet"
    /\ last_req.instruction = InstructionRef(Foo, 2)
    /\ last_req.hooked_before[Foo] = {}
    /\ sent = <<BreakpointSetSuccess(Some(10))>>
    /\ hooked[Foo] = {2}

\* C10 as claimed: disassembly is trap-transparent.  No trap of the proc is
\* installed at the moment it is disassembled, and after the command the
\* hooked offsets are those from before it, also when the facility fails to
\* remove or to reinstall a trap.
C10_TrapTransparent ==
    /\ dism_hooked.during = {}
    /\ last_req.type = "Eval" => hooked = last_req.hooked_before

\* C21 as claimed: every Eval request is answered with exactly one Eval text
\* response and never aborts the server, whether or not a session is open:
\* text that does not start with '#' gets the cannot-evaluate message, a
\* command the parser rejects gets the parser's message, an unknown command,
\* an unresolvable frame or an unknown proc gets a plain failure text.  (The
\* patch facility is taken to succeed: its failures are the subject of C10.)
C21_EvalAnswered ==
    (last_req.type = "Eval" /\ last_req.fail_at = 0)
    => LET c == last_req.command
       IN  /\ panic = "none"
           /\ Len(sent) = 1
           /\ sent[1].type = "Eval"
           /\ ~c.sharp => sent[1].text.what = CannotEvaluate
           /\ (c.sharp /\ c.parsed = "err") => sent[1].text.what = "clap error"
           /\ (c.sharp /\ c.parsed = "other") => sent[1].text.what = "unknown command"
           /\ (c.sharp /\ c.parsed = "disassemble")
              => sent[1].text.what \in
                    IF IsSome(last_req.target) THEN {"Dism for"}
                    ELSE {"Proc not found", "couldn't find stack frame",
                          "no execution frame selected"}

(***************************************************************************)
(* ServerThread: the networking thread and the channels it feeds           *)
(***************************************************************************)
MaxArrivals == 3

Disconnect == [type |-> "Disconnect"]
Configured == [type |-> "Configured"]
Pause == [type |-> "Pause"]
StacksRequest == [type |-> "Stacks"]
CatchRuntimes(should_catch) == [type |-> "CatchRuntimes", should_catch |-> should_catch]
Continue(kind) == [type |-> "Continue", kind |-> kind]
\* bytes bincode::deserialize rejects
Undecodable == [type |-> "Undecodable"]

\* what a client can put on the wire
Frames ==
    {Disconnect, Configured, Pause, StacksRequest, Continue("StepOver"), Undecodable}
    \cup {CatchRuntimes(should_catch) : should_catch \in BOOLEAN}

\* faulty variant: Disconnect is forwarded like any other request
ServerThread_handle_request_forward_all(queue, receiver_alive, frame) ==
    IF frame = Undecodable \/ ~receiver_alive
    THEN [result |-> "Err", requests |-> queue]
    ELSE [result |-> IF frame = Disconnect THEN "Ok(true)" ELSE "Ok(false)",
          requests |-> Append(queue, frame)]

\* faulty variant: the request is put at the head of the queue
ServerThread_handle_request_at_head(queue, receiver_alive, frame) ==
    IF frame = Undecodable THEN [result |-> "Err", requests |-> queue]
    ELSE IF frame = Disconnect THEN [result |-> "Ok(true)", requests |-> queue]
    ELSE IF ~receiver_alive THEN [result |-> "Err", requests |-> queue]
    ELSE [result |-> "Ok(false)", requests |-> <<frame>> \o queue]

\* ServerThread::handle_request: Ok(true) asks run to stop, Err is a frame
\* that does not decode or a send on a channel whose receiver is gone
ServerThread_handle_request(queue, receiver_alive, frame) ==
    IF frame = Undecodable THEN [result |-> "Err", requests |-> queue]
    ELSE IF frame = Disconnect THEN [result |-> "Ok(true)", requests |-> queue]
    ELSE IF ~receiver_alive THEN [result |-> "Err", requests |-> queue]
    ELSE [result |-> "Ok(false)", requests |-> Append(queue, frame)]

(***************************************************************************)
(* Server::handle_request, process, process_until_configured,              *)
(* handle_breakpoint                                                       *)
(***************************************************************************)
Ack == [type |-> "Ack"]
UnreachableRequest == "internal error: entered unreachable code"

\* Server::handle_stacks
handle_stacks(s, state) ==
    LET stacks_list ==
            IF IsSome(state)
            THEN LET st == Unwrap(state)
                 IN  <<[id |-> 0, name |-> st.active[1].proc.path]>>
                     \o [idx \in 1..Len(st.suspended) |->
                            [id |-> idx, name |-> st.suspended[idx][1].proc.path]]
            ELSE <<>>
    IN  send_or_disconnect(s, [type |-> "Stacks", stacks |-> stacks_list])

\* faulty variant: CatchRuntimes is acknowledged and not recorded
handle_request_catch_ignored(s, state, request) ==
    CASE request.type = "Disconnect" ->
            [s |-> Raise(s, UnreachableRequest), should_pause |-> FALSE]
      [] request.type = "CatchRuntimes" -> [s |-> s, should_pause |-> FALSE]
      [] request.type = "Stacks" ->
            [s |-> handle_stacks(s, state), should_pause |-> FALSE]
      [] request.type = "Pause" ->
            LET a == send_or_disconnect(s, Ack)
            IN  [s |-> a, should_pause |-> ~Panicked(a)]
      [] request.type \in {"Configured", "Continue"} ->
            [s |-> send_or_disconnect(s, Ack), should_pause |-> FALSE]

\* Server::handle_request for the requests of Frames; should_pause is the
\* value it returns
handle_request(s, state, request) ==
    CASE request.type = "Disconnect" ->
            [s |-> Raise(s, UnreachableRequest), should_pause |-> FALSE]
      [] request.type = "CatchRuntimes" ->
            [s |-> [s EXCEPT !.should_catch_runtimes = request.should_catch],
             should_pause |-> FALSE]
      [] request.type = "Stacks" ->
            [s |-> handle_stacks(s, state), should_pause |-> FALSE]
      [] request.type = "Pause" ->
            LET a == send_or_disconnect(s, Ack)
            IN  [s |-> a, should_pause |-> ~Panicked(a)]
      [] request.type \in {"Configured", "Continue"} ->
            [s |-> send_or_disconnect(s, Ack), should_pause |-> FALSE]

\* the try_recv loop of process: once should_pause is set, the || no longer
\* evaluates handle_request, and the requests received are dropped
RECURSIVE process_loop(_, _, _, _, _)
process_loop(s, queue, should_pause, drained, handled) ==
    IF queue = <<>> \/ Panicked(s)
    THEN [s |-> s, ret |-> should_pause, requests |-> queue,
          drained |-> drained, handled |-> handled]
    ELSE LET request == Head(queue)
         IN  IF should_pause
             THEN process_loop(s, Tail(queue), TRUE,
                               Append(drained, request), handled)
             ELSE LET h == handle_request(s, None, request)
                  IN  process_loop(h.s, Tail(queue), h.should_pause,
                                   Append(drained, request),
                                   Append(handled, request))

\* faulty variant: the value returned is that of the last handle_request
RECURSIVE process_loop_last(_, _, _, _, _)
process_loop_last(s, queue, should_pause, drained, handled) ==
    IF queue = <<>> \/ Panicked(s)
    THEN [s |-> s, ret |-> should_pause, requests |-> queue,
          drained |-> drained, handled |-> handled]
    ELSE LET request == Head(queue)
             h == handle_request(s, None, request)
         IN  process_loop_last(h.s, Tail(queue), h.should_pause,
                               Append(drained, request), Append(handled, request))

process_last_result(s, queue) ==
    LET c == check_connected(s)
    IN  IF ~c.ok
        THEN [s |-> c.s, ret |-> FALSE, requests |-> queue,
              drained |-> <<>>, handled |-> <<>>]
        ELSE process_loop_last(c.s, queue, FALSE, <<>>, <<>>)

\* Server::process
process(s, queue) ==
    LET c == check_connected(s)
    IN  IF ~c.ok
        THEN [s |-> c.s, ret |-> FALSE, requests |-> queue,
              drained |-> <<>>, handled |-> <<>>]
        ELSE process_loop(c.s, queue, FALSE, <<>>, <<>>)

\* Server::wait_for_connection, once recv has returned: with the stream the
\* networking thread handed over, or with Err when that thread is gone
wait_for_connection(s) ==
    IF s.stream = "Waiting" /\ s.connection
    THEN [s EXCEPT !.stream = "Connected", !.connection = FALSE]
    ELSE s

\* one iteration of the loop of process_until_configured
process_until_configured_step(s, request) ==
    IF request = Configured
    THEN LET a == send_or_disconnect(s, Ack)
         IN  [s |-> a, done |-> ~Panicked(a)]
    ELSE [s |-> handle_request(s, None, request).s, done |-> FALSE]

\* the responses written to the socket between s0 and s1, as events
Written(s0, s1) ==
    [i \in 1..(Len(s1.sent) - Len(s0.sent)) |->
        [event |-> "sent", response |-> s1.sent[Len(s0.sent) + i]]]

StateNew == [event |-> "State::new"]
BreakpointHit(reason) == [type |-> "BreakpointHit", reason |-> reason]
PausingExecution == "Pausing execution"

\* a State with an empty table replaces the one s holds
WithState(s, state) ==
    [s EXCEPT !.variables = state.variables,
              !.variables_to_refs = state.variables_to_refs,
              !.ref_log = {},
              !.intern_order = <<>>]

\* faulty variant: should_catch_runtimes is not consulted
handle_breakpoint_ignores_flag(s, reason, snapshot) ==
    LET c == check_connected(s)
    IN  IF ~c.ok
        THEN [s |-> c.s, paused |-> FALSE, events |-> <<>>]
        ELSE LET n == notify(c.s, PausingExecution)
                 b == send_or_disconnect(WithState(n, State_new(snapshot)),
                                         BreakpointHit(reason))
             IN  [s |-> b, paused |-> ~Panicked(b),
                  events |-> Written(c.s, n) \o <<StateNew>> \o Written(n, b)]

\* faulty variant: BreakpointHit is sent before the notification
handle_breakpoint_hit_first(s, reason, snapshot) ==
    LET c == check_connected(s)
    IN  IF ~c.ok \/ (reason = "Runtime" /\ ~c.s.should_catch_runtimes)
        THEN [s |-> c.s, paused |-> FALSE, events |-> <<>>]
        ELSE LET b == send_or_disconnect(c.s, BreakpointHit(reason))
                 n == notify(WithState(b, State_new(snapshot)), PausingExecution)
             IN  [s |-> n, paused |-> ~Panicked(n),
                  events |-> Written(c.s, b) \o <<StateNew>> \o Written(b, n)]

\* Server::handle_breakpoint up to its request loop: paused tells whether
\* the loop is entered, events what was done in order
handle_breakpoint(s, reason, snapshot) ==
    LET c == check_connected(s)
    IN  IF ~c.ok \/ (reason = "Runtime" /\ ~c.s.should_catch_runtimes)
        THEN [s |-> c.s, paused |-> FALSE, events |-> <<>>]
        ELSE LET n == notify(c.s, PausingExecution)
                 b == send_or_disconnect(WithState(n, State_new(snapshot)),
                                         BreakpointHit(reason))
             IN  [s |-> b, paused |-> ~Panicked(b),
                  events |-> Written(c.s, n) \o <<StateNew>> \o Written(n, b)]

\* one iteration of the request loop of handle_breakpoint: returned is the
\* ContinueKind the call returns with, if it returns
handle_breakpoint_recv(s, state, request) ==
    IF request.type = "Continue"
    THEN LET a == send_or_disconnect(s, Ack)
         IN  [s |-> a,
              returned |-> IF Panicked(a) THEN None ELSE Some(request.kind)]
    ELSE [s |-> handle_request(s, Some(state), request).s, returned |-> None]

(***************************************************************************)
(* SpecDispatch: the networking thread, the requests channel and the main  *)
(* thread in Handshake, Idle and Paused, up to the drop of the Server.     *)
(* SpecTeardown: the same with a socket whose writes can start to fail,    *)
(* for a client that sends neither Disconnect nor bytes that do not decode *)
(***************************************************************************)
\* the Server as Server::connect builds it before process_until_configured,
\* or as Server::listen returns it
InitDispatch ==
    /\ \/ stream = "Connected" /\ thread = "Running" /\ mode = "Handshake"
       \/ stream = "Waiting" /\ thread = "Accepting" /\ mode = "Idle"
    /\ connection = FALSE
    /\ socket_ok = TRUE
    /\ should_catch_runtimes = TRUE
    /\ stacks = NoStacks
    /\ variables = <<>>
    /\ variables_to_refs = EmptyMap
    /\ sent = <<>>
    /\ teardowns = 0
    /\ panic = "none"
    /\ last_req = NoReq
    /\ ret = NoRet
    /\ ref_log = {}
    /\ intern_order = <<>>
    /\ stale_refs = {}
    /\ procs = DefaultProcs
    /\ hooked = NoHooks
    /\ dism_hooked = NoDism
    /\ requests = <<>>
    /\ arrived = <<>>
    /\ dequeued = <<>>
    /\ events = <<>>
    /\ library = NotLoaded

\* the main thread's state as it is, for steps taken by others
Same == [Cur EXCEPT !.sent = sent, !.panic = panic]

\* the receiving ends of the channels live as long as the Server
ReceiverAlive == mode # "Dropped"

\* spawn_listener: listener.accept() returned
ThreadAccept(ok) ==
    /\ thread = "Accepting"
    /\ IF ok /\ ReceiverAlive
       THEN /\ Commit([Same EXCEPT !.connection = TRUE])
            /\ thread' = "Running"
       ELSE /\ Commit(Same)
            /\ thread' = "Finished"
    /\ UNCHANGED <<socket_ok, mode, stacks, last_req, ret, stale_refs, procs, library,
                   requests, arrived, dequeued, events>>

\* ServerThread::run read one frame
ThreadRead(frame) ==
    /\ thread = "Running"
    /\ Len(arrived) < MaxArrivals
    /\ arrived' = Append(arrived, frame)
    /\ LET r == ServerThread_handle_request(requests, ReceiverAlive, frame)
       IN  /\ requests' = r.requests
           /\ thread' = IF r.result = "Ok(false)" THEN "Running" ELSE "Finished"
    /\ Commit(Same)
    /\ UNCHANGED <<socket_ok, mode, stacks, last_req, ret, stale_refs, procs, library,
                   dequeued, events>>

\* ServerThread::run: read_exact failed
ThreadReadError ==
    /\ thread = "Running"
    /\ thread' = "Finished"
    /\ Commit(Same)
    /\ UNCHANGED <<socket_ok, mode, stacks, last_req, ret, stale_refs, procs, library,
                   requests, arrived, dequeued, events>>

\* the peer or the network ends the connection: writes fail from now on
SocketFails ==
    /\ socket_ok
    /\ stream = "Connected"
    /\ socket_ok' = FALSE
    /\ Commit(Same)
    /\ UNCHANGED <<mode, stacks, last_req, ret, stale_refs, procs, library, net>>

\* requests received by the main thread in the given state
ReceivedIn(by, received) ==
    [i \in 1..Len(received) |-> [request |-> received[i], by |-> by]]

\* Server::process called by the VM
Process ==
    /\ Alive
    /\ mode = "Idle"
    /\ LET r == process(Cur, requests)
       IN  /\ Commit(r.s)
           /\ requests' = r.requests
           /\ dequeued' = dequeued \o ReceivedIn("Idle", r.drained)
           /\ last_req' = [type |-> "process", connected |-> stream,
                           handoff |-> connection,
                           drained |-> r.drained, handled |-> r.handled]
           /\ ret' = IF Panicked(r.s) THEN NoRet ELSE r.ret
    /\ events' = <<>>
    /\ UNCHANGED <<socket_ok, mode, stacks, stale_refs, procs, library, thread, arrived>>

\* Server::process_until_configured called on a Server that listens, when
\* wait_for_connection returns
WaitForConnection ==
    /\ Alive
    /\ mode = "Idle"
    /\ stream = "Waiting"
    /\ connection \/ thread = "Finished"
    /\ Commit(wait_for_connection(Cur))
    /\ mode' = "Handshake"
    /\ last_req' = [type |-> "wait_for_connection"]
    /\ ret' = NoRet
    /\ UNCHANGED <<socket_ok, stacks, stale_refs, procs, library, net>>

\* the loop of process_until_configured received a request
HandshakeRecv ==
    /\ Alive
    /\ mode = "Handshake"
    /\ requests # <<>>
    /\ LET request == Head(requests)
           r == process_until_configured_step(Cur, request)
       IN  /\ Commit(r.s)
           /\ mode' = IF r.done THEN "Idle" ELSE "Handshake"
           /\ last_req' = [type |-> "process_until_configured",
                           request |-> request]
           /\ dequeued' = dequeued \o ReceivedIn("Handshake", <<request>>)
    /\ requests' = Tail(requests)
    /\ ret' = NoRet
    /\ UNCHANGED <<socket_ok, stacks, stale_refs, procs, library, thread, arrived, events>>

\* the loop of process_until_configured: recv fails, the sender is gone
HandshakeClosed ==
    /\ Alive
    /\ mode = "Handshake"
    /\ requests = <<>>
    /\ thread = "Finished"
    /\ Commit(Cur)
    /\ mode' = "Idle"
    /\ last_req' = [type |-> "process_until_configured", request |-> None]
    /\ ret' = NoRet
    /\ UNCHANGED <<socket_ok, stacks, stale_refs, procs, library, net>>

DispatchSnapshot == MkStacks(2, <<1>>)
\* a reason that is a runtime error and one that is not
DispatchReasons == {"Breakpoint", "Runtime"}

\* Server::handle_breakpoint called by the VM
BreakpointCall(reason) ==
    /\ Alive
    /\ mode = "Idle"
    /\ LET r == handle_breakpoint(Cur, reason, DispatchSnapshot)
       IN  /\ Commit(r.s)
           /\ events' = r.events
           /\ mode' = IF r.paused THEN "Paused" ELSE "Idle"
           /\ stacks' = IF r.paused THEN DispatchSnapshot ELSE NoStacks
           /\ ret' = IF r.paused \/ Panicked(r.s) THEN NoRet ELSE "Continue"
    /\ last_req' = [type |-> "handle_breakpoint", reason |-> reason,
                    connected |-> stream, handoff |-> connection,
                    catching |-> should_catch_runtimes,
                    received |-> Len(dequeued)]
    /\ UNCHANGED <<socket_ok, stale_refs, procs, library, requests, thread, arrived,
                   dequeued>>

\* the loop of handle_breakpoint received a request
BreakpointRecv ==
    /\ Alive
    /\ mode = "Paused"
    /\ requests # <<>>
    /\ LET request == Head(requests)
           r == handle_breakpoint_recv(Cur, stacks, request)
           returns == IsSome(r.returned)
       IN  /\ Commit(IF returns THEN WithState(r.s, State_new(NoStacks)) ELSE r.s)
           /\ events' = events \o <<[event |-> "received", request |-> request]>>
                               \o Written(Cur, r.s)
                               \o IF returns
                                  THEN <<[event |-> "return",
                                          kind |-> Unwrap(r.returned)]>>
                                  ELSE <<>>
           /\ mode' = IF returns THEN "Idle" ELSE "Paused"
           /\ stacks' = IF returns THEN NoStacks ELSE stacks
           /\ ret' = IF returns THEN Unwrap(r.returned) ELSE NoRet
           /\ last_req' = [type |-> "handle_breakpoint loop", request |-> request]
           /\ dequeued' = dequeued \o ReceivedIn("Paused", <<request>>)
    /\ requests' = Tail(requests)
    /\ UNCHANGED <<socket_ok, stale_refs, procs, library, thread, arrived>>

\* faulty variant: a recv that fails is tried again
BreakpointClosed_retries ==
    /\ Alive
    /\ mode = "Paused"
    /\ requests = <<>>
    /\ thread = "Finished"
    /\ Commit(Same)
    /\ last_req' = [type |-> "handle_breakpoint loop", request |-> None]
    /\ UNCHANGED <<socket_ok, mode, stacks, ret, stale_refs, procs, library, net>>

\* the loop of handle_breakpoint: recv fails, the sender is gone
BreakpointClosed ==
    /\ Alive
    /\ mode = "Paused"
    /\ requests = <<>>
    /\ thread = "Finished"
    /\ Commit(WithState(Cur, State_new(NoStacks)))
    /\ events' = Append(events, [event |-> "return", kind |-> "Continue"])
    /\ mode' = "Idle"
    /\ stacks' = NoStacks
    /\ ret' = "Continue"
    /\ last_req' = [type |-> "handle_breakpoint loop", request |-> None]
    /\ UNCHANGED <<socket_ok, stale_refs, procs, library, requests, thread, arrived,
                   dequeued>>

\* the Server is dropped: between two calls, or by a panic that unwinds
Drop ==
    /\ mode # "Dropped"
    /\ mode = "Idle" \/ ~Alive
    /\ Commit(disconnect([Same EXCEPT !.connection = FALSE]))
    /\ mode' = "Dropped"
    /\ requests' = <<>>
    /\ last_req' = [type |-> "drop", stream |-> stream, teardowns |-> teardowns]
    /\ ret' = NoRet
    /\ events' = <<>>
    /\ UNCHANGED <<socket_ok, stacks, stale_refs, procs, library, thread, arrived,
                   dequeued>>

\* the steps of the main thread, and those of the networking thread that
\* read no frame
NextCommon ==
    \/ \E ok \in BOOLEAN : ThreadAccept(ok)
    \/ ThreadReadError
    \/ Process
    \/ WaitForConnection
    \/ HandshakeRecv
    \/ HandshakeClosed
    \/ \E reason \in DispatchReasons : BreakpointCall(reason)
    \/ BreakpointRecv
    \/ BreakpointClosed
    \/ Drop

NextDispatch ==
    \/ \E frame \in Frames : ThreadRead(frame)
    \/ NextCommon

SpecDispatch == InitDispatch /\ [][NextDispatch]_vars

\* the requests of a client that stays connected
TeardownFrames ==
    {Configured, Pause, StacksRequest, Continue("StepOver"), CatchRuntimes(FALSE)}

NextTeardown ==
    \/ \E frame \in TeardownFrames : ThreadRead(frame)
    \/ SocketFails
    \/ NextCommon

SpecTeardown == InitDispatch /\ [][NextTeardown]_vars

\* the requests the main thread has received
Dequeued == [i \in 1..Len(dequeued) |-> dequeued[i].request]

\* C11: a Disconnect the networking thread decodes ends that thread and is
\* not forwarded: it is neither in the requests channel nor among the
\* requests the main thread received, handle_request never meets its
\* unreachable Disconnect arm, and nothing is read, so nothing forwarded,
\* after it.
C11_DisconnectConsumed ==
    /\ \A i \in 1..Len(requests) : requests[i] # Disconnect
    /\ \A i \in 1..Len(Dequeued) : Dequeued[i] # Disconnect
    /\ panic # UnreachableRequest
    /\ \A i \in 1..Len(arrived) :
          arrived[i] = Disconnect
          => /\ i = Len(arrived)
             /\ thread = "Finished"
             /\ Len(Dequeued) + Len(requests) < Len(arrived)

\* requests were forwarded and received, then a Disconnect arrived
C11_Witness ==
    /\ Len(arrived) = 3
    /\ arrived[3] = Disconnect
    /\ Dequeued = <<arrived[1]>>
    /\ requests = <<arrived[2]>>
    /\ thread = "Finished"

\* the frames that decode to a request other than Disconnect
IsForwardable(frame) == frame # Disconnect /\ frame # Undecodable
Forwardable(frames) == SelectSeq(frames, IsForwardable)

\* C12: while the Server exists, the requests received by the main thread
\* followed by those still in the channel are the decoded requests other
\* than Disconnect, each once and in the order they arrived, whichever of
\* Handshake, Idle and Paused received them.
C12_QueueOrder ==
    ReceiverAlive => Dequeued \o requests = Forwardable(arrived)

\* three requests were received in arrival order, one in each state
C12_Witness ==
    /\ Len(dequeued) = 3
    /\ dequeued[1].by = "Handshake"
    /\ dequeued[2].by = "Idle"
    /\ dequeued[3].by = "Paused"
    /\ Dequeued = arrived
    /\ Dequeued[1] # Dequeued[2]
    /\ Dequeued[2] # Dequeued[3]

\* C13 as claimed: process_until_configured ends, and the main thread
\* becomes Idle, only by receiving Configured and answering it with exactly
\* one Ack; a request received before it is serviced with no session and
\* leaves the main thread in Handshake.  Stated for a socket that works.
C13_HandshakeEndsAtConfigured ==
    (socket_ok /\ Alive /\ last_req.type = "process_until_configured")
    => /\ mode = "Idle" => last_req.request = Configured /\ sent = <<Ack>>
       /\ last_req.request # Configured => mode = "Handshake"
       /\ last_req.request = StacksRequest
          => sent = <<[type |-> "Stacks", stacks |-> <<>>]>>

\* whether check_connected found the Server connected when the call began
WasConnected ==
    \/ last_req.connected = "Connected"
    \/ last_req.connected = "Waiting" /\ last_req.handoff

\* C14: when process returns, it returns true exactly when a Pause was among
\* the requests it received; called on a Server that is not connected it
\* returns false and receives nothing.
C14_ProcessReturn ==
    last_req.type = "process"
    => /\ Alive => (ret = TRUE <=> \E i \in 1..Len(last_req.drained) :
                                      last_req.drained[i] = Pause)
       /\ ~WasConnected
          => /\ Alive
             /\ ret = FALSE
             /\ last_req.drained = <<>>
             /\ sent = <<>>

\* process received a request that is no Pause and then a Pause
C14_Witness ==
    /\ last_req.type = "process"
    /\ Len(last_req.drained) = 2
    /\ last_req.drained[1] = StacksRequest
    /\ last_req.drained[2] = Pause
    /\ sent = <<[type |-> "Stacks", stacks |-> <<>>], Ack>>
    /\ ret = TRUE

\* C15 as claimed: every request process takes from the channel is handled,
\* those that follow a Pause in the same call included.
C15_ProcessHandlesAll ==
    (Alive /\ last_req.type = "process") => last_req.handled = last_req.drained

\* C16: handle_breakpoint called on a Server that is not connected, or for a
\* runtime error while should_catch_runtimes is false, returns Continue,
\* writes nothing to the socket, creates no State and receives nothing from
\* the requests channel.
C16_NoPauseResumes ==
    (/\ last_req.type = "handle_breakpoint"
     /\ ~WasConnected \/ (last_req.reason = "Runtime" /\ ~last_req.catching))
    => /\ Alive
       /\ ret = "Continue"
       /\ sent = <<>>
       /\ events = <<>>
       /\ mode = "Idle"
       /\ stacks = NoStacks
       /\ variables = <<>>
       /\ Len(dequeued) = last_req.received

\* a runtime error reached a connected Server that does not catch runtimes,
\* with a request waiting in the channel
C16_Witness ==
    /\ last_req.type = "handle_breakpoint"
    /\ last_req.reason = "Runtime"
    /\ last_req.connected = "Connected"
    /\ ~last_req.catching
    /\ requests # <<>>
    /\ dequeued # <<>>
    /\ ret = "Continue"

Sent(response) == [event |-> "sent", response |-> response]
Received(request) == [event |-> "received", request |-> request]
Return(kind) == [event |-> "return", kind |-> kind]

\* C17: on a socket that works, a handle_breakpoint call that pauses sends
\* the notification, creates the State, sends BreakpointHit with its reason,
\* then services the requests it receives against that State; the first
\* Continue it receives is answered with Ack and its kind is what the call
\* returns, and nothing is received in that pause after it.
C17_PauseOrder ==
    (socket_ok /\ Alive /\ events # <<>>)
    => /\ Len(events) >= 3
       /\ events[1] = Sent(Notification(PausingExecution))
       /\ events[2] = StateNew
       /\ events[3].event = "sent"
       /\ events[3].response.type = "BreakpointHit"
       /\ last_req.type = "handle_breakpoint"
          => events = <<events[1], StateNew, Sent(BreakpointHit(last_req.reason))>>
       /\ \A i \in 4..Len(events) :
             /\ events[i] = Received(StacksRequest)
                => /\ i < Len(events)
                   /\ events[i + 1].event = "sent"
                   /\ events[i + 1].response.type = "Stacks"
                   /\ Len(events[i + 1].response.stacks)
                         = 1 + Len(DispatchSnapshot.suspended)
             /\ (events[i].event = "received" /\ events[i].request.type = "Continue")
                => /\ Len(events) = i + 2
                   /\ events[i + 1] = Sent(Ack)
                   /\ events[i + 2] = Return(events[i].request.kind)
             /\ events[i].event = "return"
                => /\ i = Len(events)
                   /\ ret = events[i].kind
                   /\ mode = "Idle"
                   /\ variables = <<>>
       /\ mode = "Paused" <=> events[Len(events)].event # "return"

\* a pause serviced Stacks, then received Continue{StepOver} and returned
\* StepOver
C17_Witness ==
    /\ socket_ok
    /\ Len(events) = 8
    /\ events[4] = Received(StacksRequest)
    /\ events[6] = Received(Continue("StepOver"))
    /\ events[7] = Sent(Ack)
    /\ events[8] = Return("StepOver")
    /\ ret = "StepOver"
    /\ mode = "Idle"

\* the requests handled by the step that leads to the next state
HandledNow ==
    IF Len(dequeued') = Len(dequeued) THEN <<>>
    ELSE IF last_req'.type = "process" THEN last_req'.handled
    ELSE <<last_req'.request>>

IsCatchRuntimes(request) == request.type = "CatchRuntimes"
CatchesNow == SelectSeq(HandledNow, IsCatchRuntimes)

\* a step leaves should_catch_runtimes at the value of the last
\* CatchRuntimes it handled, and alone if it handled none
CatchStep ==
    should_catch_runtimes' =
        IF CatchesNow # <<>> THEN CatchesNow[Len(CatchesNow)].should_catch
        ELSE should_catch_runtimes

\* a handle_breakpoint call on a connected Server goes on to pause exactly
\* when its reason is no runtime error or should_catch_runtimes is true
PauseDecision ==
    (last_req.type = "handle_breakpoint" /\ WasConnected)
    => (events # <<>> <=> (last_req.reason # "Runtime" \/ last_req.catching))

\* C18: should_catch_runtimes starts true and is, after every step of the
\* main thread in Handshake, Idle or Paused, the value of the CatchRuntimes
\* request handled last; a runtime-error handle_breakpoint call pauses
\* exactly when it is true, and calls with other reasons pause either way.
C18_CatchRuntimesImmediate ==
    /\ should_catch_runtimes = TRUE
    /\ [][CatchStep]_vars
    /\ []PauseDecision

\* catching was disabled while Idle and enabled again while Paused; the
\* runtime error that came next paused
C18_Witness ==
    /\ Len(dequeued) = 3
    /\ dequeued[1] = [request |-> CatchRuntimes(FALSE), by |-> "Idle"]
    /\ dequeued[2] = [request |-> CatchRuntimes(TRUE), by |-> "Paused"]
    /\ dequeued[3].request.type = "Continue"
    /\ last_req.type = "handle_breakpoint"
    /\ last_req.reason = "Runtime"
    /\ last_req.catching
    /\ mode = "Paused"

\* C19 as claimed: once a failed write has torn the connection down, a
\* further send attempt does nothing; it never aborts the server through
\* the unreachable!() of send_or_disconnect.
C19_SendAfterTeardownIsNoOp ==
    stream = "Disconnected" => panic # NotConnected

\* the stream only moves forward, and written Disconnect frames only add up
StreamStep ==
    /\ stream' # stream
       => \/ stream = "Waiting" /\ stream' \in {"Connected", "Disconnected"}
          \/ stream = "Connected" /\ stream' = "Disconnected"
    /\ teardowns' >= teardowns

\* C20: the stream only moves Waiting -> Connected -> Disconnected or
\* Waiting -> Disconnected and stays Disconnected, and over send failures
\* followed by the drop of the Server at most one Disconnect frame is
\* written, by the step that leaves Connected.
C20_TeardownOnce ==
    /\ [][StreamStep]_vars
    /\ [](/\ teardowns <= 1
          /\ teardowns = 1 => stream = "Disconnected"
          /\ mode = "Dropped" => stream = "Disconnected")

\* a failed send tore the connection down, then the Server was dropped
C20_Witness ==
    /\ mode = "Dropped"
    /\ ~socket_ok
    /\ last_req.type = "drop"
    /\ last_req.stream = "Disconnected"
    /\ last_req.teardowns = 1
    /\ teardowns = 1


(***************************************************************************)
(* StackFrames: Server::handle_stack_frames.  u32 is kept at U32Bits bits  *)
(* (narrower than usize, as in the program), so that start_frame + count   *)
(* can leave the range.                                                    *)
(***************************************************************************)
U32Bits == 4
U32Modulus == 2 ^ U32Bits

AddOverflow == "attempt to add with overflow"

\* a + b on u32: with overflow checks (debug profile) a sum out of range
\* panics, without them (release profile) it wraps
u32_add(a, b, overflow_checks) ==
    IF a + b >= U32Modulus /\ overflow_checks
    THEN [panic |-> AddOverflow, value |-> 0]
    ELSE [panic |-> "none", value |-> (a + b) % U32Modulus]

StackFrame(id, proc, offset, line) ==
    [id |-> id, instruction |-> InstructionRef(proc, offset), line |-> line]

StackFramesResponse(frames, total_count) ==
    [type |-> "StackFrames", frames |-> frames, total_count |-> total_count]

NotPausedStackFrames == "received StackFrames request when not paused"

\* the loop 'for i in start_frame..end_frame' of handle_stack_frames
RECURSIVE stack_frames_loop(_, _, _, _, _, _)
stack_frames_loop(ps, stack, frame_base, i, end_frame, frames) ==
    IF i >= end_frame THEN frames
    ELSE IF i >= Len(stack) THEN frames
    ELSE LET proc_ref == ProcRef(stack[i + 1].proc.path, stack[i + 1].proc.override_id)
         IN  stack_frames_loop(ps, stack, frame_base, i + 1, end_frame,
                 Append(frames,
                        StackFrame((frame_base + i) % U32Modulus, proc_ref,
                                   stack[i + 1].offset,
                                   get_line_number(ps, proc_ref, stack[i + 1].offset))))

handle_stack_frames(s, ps, state, stack_id, start_frame, count, overflow_checks) ==
    LET found == get_stack(state, stack_id)
    IN  IF IsSome(found)
        THEN LET stack == Unwrap(found)
                 frame_base == get_stack_base_frame_id(state, stack_id)
                 start == IF IsSome(start_frame) THEN Unwrap(start_frame) ELSE 0
                 end_frame == u32_add(start,
                                      IF IsSome(count) THEN Unwrap(count)
                                      ELSE Len(stack) % U32Modulus,
                                      overflow_checks)
             IN  IF frame_base.panic # "none" THEN Raise(s, frame_base.panic)
                 ELSE IF end_frame.panic # "none" THEN Raise(s, end_frame.panic)
                 ELSE send_or_disconnect(s,
                        StackFramesResponse(
                            stack_frames_loop(ps, stack, frame_base.value, start,
                                              end_frame.value, <<>>),
                            Len(stack) % U32Modulus))
        ELSE send_or_disconnect(notify(s, NotPausedStackFrames),
                                StackFramesResponse(<<>>, 0))

(***************************************************************************)
(* SpecStackFrames: StackFrames requests serviced inside a session         *)
(***************************************************************************)
FrameSnapshots == {MkStacks(1, <<>>), MkStacks(2, <<1>>), MkStacks(3, <<2, 4>>)}

InitStackFrames ==
    /\ InitServer
    /\ mode = "Paused"
    /\ stacks \in FrameSnapshots
    /\ procs = DefaultProcs

\* start_frame and count: absent, around the stack lengths, at the top of u32
U32Samples == (0..MaxFrames) \cup {U32Modulus - 2, U32Modulus - 1}
OptionU32 == {None} \cup {Some(v) : v \in U32Samples}

RequestStackFrames(stack_id, start_frame, count, overflow_checks) ==
    /\ Alive
    /\ mode = "Paused"
    /\ Serviced([type |-> "StackFrames", stack_id |-> stack_id,
                 start_frame |-> start_frame, count |-> count,
                 overflow_checks |-> overflow_checks],
                handle_stack_frames(Cur, procs, stacks, stack_id, start_frame,
                                    count, overflow_checks),
                NoRet)

NextStackFrames ==
    \E stack_id \in StackIds : \E start_frame \in OptionU32 : \E count \in OptionU32 :
       \E overflow_checks \in BOOLEAN :
          RequestStackFrames(stack_id, start_frame, count, overflow_checks)

SpecStackFrames == InitStackFrames /\ [][NextStackFrames]_vars

\* the frames of the window [start, start + count) of a stack, the sum
\* being taken in the integers
Window(stack, frame_base, start, count) ==
    LET last == IF start + count < Len(stack) THEN start + count ELSE Len(stack)
        n == IF last > start THEN last - start ELSE 0
    IN  [k \in 1..n |->
            LET f == stack[start + k]
            IN  StackFrame(frame_base + start + k - 1, f.proc, f.offset,
                           LineFor(procs[f.proc], f.offset))]

\* C22 as claimed: for a valid stack_id, StackFrames{stack_id, start, count}
\* returns in order the frames with local index in [start, start + count)
\* that exist, each with id base + index, and total_count = len (start
\* defaults to 0, count to len), for all start and count of the u32 range,
\* also when their sum leaves it; an out-of-range stack_id yields no frames,
\* total_count 0 and a Notification.
C22_StackFramesWindow ==
    last_req.type = "StackFrames"
    => LET found == get_stack(stacks, last_req.stack_id)
       IN  IF IsSome(found)
           THEN LET stack == Unwrap(found)
                    start == IF IsSome(last_req.start_frame)
                             THEN Unwrap(last_req.start_frame) ELSE 0
                    count == IF IsSome(last_req.count)
                             THEN Unwrap(last_req.count) ELSE Len(stack)
                    base == Cardinality(FramesBefore(stacks, last_req.stack_id))
                IN  /\ panic = "none"
                    /\ sent = <<StackFramesResponse(
                                   Window(stack, IF last_req.stack_id = 0 THEN 0 ELSE base,
                                          start, count),
                                   Len(stack))>>
           ELSE /\ panic = "none"
                /\ sent = <<Notification(NotPausedStackFrames),
                            StackFramesResponse(<<>>, 0)>>

\* C22 within the range: the same, for requests whose start + count does
\* not leave the u32 range
C22_StackFramesInRange ==
    (/\ last_req.type = "StackFrames"
     /\ LET found == get_stack(stacks, last_req.stack_id)
        IN  IsSome(found)
            => (IF IsSome(last_req.start_frame) THEN Unwrap(last_req.start_frame) ELSE 0)
               + (IF IsSome(last_req.count) THEN Unwrap(last_req.count)
                  ELSE Len(Unwrap(found)))
               < U32Modulus)
    => C22_StackFramesWindow

\* the release profile wraps the sum: frames 1 and 2 of a stack of three
\* were asked for with the largest count and none came back
C22_WrappedWindow ==
    /\ last_req.type = "StackFrames"
    /\ ~last_req.overflow_checks
    /\ last_req.stack_id = 0
    /\ last_req.start_frame = Some(1)
    /\ last_req.count = Some(U32Modulus - 1)
    /\ stacks = MkStacks(3, <<2, 4>>)
    /\ sent = <<StackFramesResponse(<<>>, 3)>>


(***************************************************************************)
(* Handshake before Idle and Paused                                        *)
(***************************************************************************)
\* the handshake loop has received Configured among the first n requests
ConfiguredWithin(n) ==
    \E j \in 1..n : dequeued[j] = [request |-> Configured, by |-> "Handshake"]

\* C23 as claimed: the dispatcher starts in Handshake in both connection
\* modes: process() services no request in Idle, and no handle_breakpoint
\* call enters its request loop, before the handshake has received (and
\* acknowledged) a Configured request.
C23_HandshakeFirst ==
    /\ \A i \in 1..Len(dequeued) :
          dequeued[i].by # "Handshake" => ConfiguredWithin(i - 1)
    /\ mode = "Paused" => ConfiguredWithin(Len(dequeued))

\* the handshake ran and ended because the channel closed, and a call of
\* handle_breakpoint then entered its request loop
C23_PausedUnconfigured ==
    /\ mode = "Paused"
    /\ ~ConfiguredWithin(Len(dequeued))
    /\ \A i \in 1..Len(dequeued) : dequeued[i].by = "Handshake"
    /\ Len(arrived) > 0
    /\ arrived[Len(arrived)] = Disconnect


(***************************************************************************)
(* Internals handles                                                       *)
(***************************************************************************)
\* the handle the session's table holds for a kind
HandleOf(kind) == CHOOSE h \in 1..Len(variables) : variables[h] = kind

\* the reference a value is shown with: that of its contents when it is a
\* list, of its fields when it is an object, none otherwise
ReferenceOf(value) ==
    IF IsList(value) THEN Some(HandleOf(ListContents(value)))
    ELSE IF is_object(value) THEN Some(HandleOf(ObjectVars(value)))
    ELSE None

\* C24: in every session each Internals{frame} kind of the Variable
\* Reference Table names a frame id that get_stack_frame resolves, and a
\* Variables request for an Internals handle never fails and is answered
\* with exactly two children: 'Stack', carrying the handle of Stack{frame},
\* and 'Cache', the frame's cache value.
C24_InternalsExpand ==
    /\ \A h \in 1..Len(variables) :
          variables[h].kind = "Internals"
          => mode = "Paused" /\ IsSome(get_stack_frame(stacks, variables[h].frame))
    /\ (/\ last_req.type = "Variables"
        /\ last_req.vars \in 1..Len(variables)
        /\ variables[last_req.vars].kind = "Internals")
       => LET frame == variables[last_req.vars].frame
              stack_data == Unwrap(get_stack_frame(stacks, frame)).frame
          IN  /\ panic = "none"
              /\ Stack(frame) \in {variables[h] : h \in 1..Len(variables)}
              /\ sent = <<VariablesResponse(
                             <<Variable("Stack", 0, Some(HandleOf(Stack(frame)))),
                               Variable("Cache", 0, ReferenceOf(stack_data.cache))>>)>>

\* the internals of frame 0 were listed under handle 4 and expanded: Stack{0}
\* became handle 5, the cache of the frame is null
C24_Witness ==
    /\ mode = "Paused"
    /\ last_req.type = "Variables"
    /\ last_req.vars = 4
    /\ Len(variables) = 5
    /\ variables[4] = Internals(0)
    /\ variables[5] = Stack(0)
    /\ sent = <<VariablesResponse(<<Variable("Stack", 0, Some(5)),
                                    Variable("Cache", 0, None)>>)>>


(***************************************************************************)
(* SpecRoundTrip: a client asks for the offset of a line and sets a        *)
(* breakpoint at the offset it was given                                   *)
(***************************************************************************)
\* Request::BreakpointSet for the instruction the last Offset response named
RequestBreakpointSetAtOffset ==
    /\ Alive
    /\ last_req.type = "Offset"
    /\ IsSome(ret)
    /\ LET instruction == InstructionRef(last_req.proc, Unwrap(ret))
       IN  Serviced([type |-> "BreakpointSet", instruction |-> instruction,
                     hook_ok |-> TRUE, hooked_before |-> hooked,
                     line |-> last_req.line],
                    handle_breakpoint_set(Cur, procs, instruction, TRUE),
                    NoRet)

NextRoundTrip ==
    \/ \E q \in OffsetQueries : RequestOffset(q[1], q[2])
    \/ RequestBreakpointSetAtOffset

SpecRoundTrip == InitLines /\ [][NextRoundTrip]_vars

\* C25 as claimed: line and offset resolution round-trip on every
\* instruction stream: a breakpoint set at the offset that offset_for gave
\* for a line L reports line_for(offset) = L.
C25_RoundTrip ==
    (last_req.type = "BreakpointSet" /\ sent[1].result = "Success")
    => sent[1].line = Some(last_req.line)

\* C25 on streams where it holds: the same, when the instruction that
\* follows the first marker of L is not itself the marker of another line
C25_RoundTripUnlessMarkerFollows ==
    (/\ last_req.type = "BreakpointSet"
     /\ sent[1].result = "Success"
     /\ LET dism == procs[last_req.instruction.proc]
            m == FirstMarker(dism, last_req.line)
        IN  ~(dism[m + 1].op = "DbgLine" /\ dism[m + 1].line # last_req.line))
    => sent[1].line = Some(last_req.line)

\* the round trip on the example stream: offset_for(12) = 6, and the
\* breakpoint set at 6 reports line 12
C25_RoundTripExample ==
    /\ procs[Foo] = ExampleStream
    /\ last_req.type = "BreakpointSet"
    /\ last_req.line = 12
    /\ sent = <<BreakpointSetSuccess(Some(12))>>

\* the marker of line 12 follows the marker of line 10: offset_for(10) is
\* the address of the second marker, and the breakpoint set there reports 12
C25_MarkerFollows ==
    /\ Len(procs[Foo]) >= 2
    /\ procs[Foo][1] = DbgLine(0, 10)
    /\ procs[Foo][2] = DbgLine(1, 12)
    /\ last_req.type = "BreakpointSet"
    /\ last_req.line = 10
    /\ last_req.instruction = InstructionRef(Foo, 1)
    /\ sent = <<BreakpointSetSuccess(Some(12))>>


(***************************************************************************)
(* SpecPausedLive: SpecDispatch with a main thread that is woken when it   *)
(* blocks in recv: by a request in the channel, or by the channel closing  *)
(***************************************************************************)
NextPaused ==
    \/ \E frame \in Frames : ThreadRead(frame)
    \/ \E ok \in BOOLEAN : ThreadAccept(ok)
    \/ ThreadReadError
    \/ WaitForConnection
    \/ HandshakeRecv
    \/ HandshakeClosed
    \/ \E reason \in DispatchReasons : BreakpointCall(reason)
    \/ BreakpointRecv
    \/ BreakpointClosed
    \/ Drop

SpecPausedLive ==
    /\ InitDispatch
    /\ [][NextPaused]_vars
    /\ WF_requests(BreakpointRecv)
    /\ WF_mode(BreakpointClosed)

\* a call of handle_breakpoint returns in this step
PauseReturns == mode = "Paused" /\ mode' = "Idle"

HandoffSent == connection \/ stream # "Waiting"

\* C27: in listen mode the handoff is sent before any request reaches the
\* requests channel, it is sent once and taken at most once (the stream
\* never waits again), and under every interleaving of the two threads the
\* main thread never tries to send while the stream is Waiting: nothing is
\* written and send_or_disconnect never meets its unreachable arm.
C27_HandoffFirst ==
    /\ [](/\ arrived # <<>> => HandoffSent
          /\ stream = "Waiting" => sent = <<>>
          /\ panic # NotConnected)
    /\ [][/\ (~connection /\ connection') => (thread = "Accepting" /\ stream = "Waiting")
          /\ (connection /\ ~connection')
             => (stream = "Waiting" /\ stream' \in {"Connected", "Disconnected"})
          /\ stream' = "Waiting" => stream = "Waiting"
          /\ thread' = "Accepting" => thread = "Accepting"]_vars

\* listen mode: a request was already queued when the main thread took the
\* handoff in process(), which then serviced the request
C27_Witness ==
    /\ last_req.type = "process"
    /\ last_req.connected = "Waiting"
    /\ last_req.handoff
    /\ last_req.handled = <<StacksRequest>>
    /\ stream = "Connected"
    /\ ~connection
    /\ Len(sent) = 1


(***************************************************************************)
(* auxtools_init: the entry point the VM calls to load the library         *)
(***************************************************************************)
MaxCalls == 3

Success == "SUCCESS"
NoScanner == "FAILED (Couldn't create scanner for byondcore.dll)"
HooksInitError == "hooks::init error"
SetPanic == "explicit panic"

\* what auxtools_init looks for in byondcore.dll, in the order it does;
\* the name is the one its failure message gives
Signatures ==
    <<"stringtable", "GetProcArrayEntry", "GetStringId", "CallGlobalProc",
      "GetVariable", "SetVariable", "GetStringTableEntry", "CallDatumProcByName">>

CouldntFind(name) == <<"FAILED (Couldn't find ", name, ")">>

\* the chain of byondcore.find calls from the i-th on: the message of the
\* first one that finds nothing, none when all are found
RECURSIVE find_all(_, _)
find_all(found, i) ==
    IF i > Len(Signatures) THEN None
    ELSE IF Signatures[i] \notin found THEN Some(CouldntFind(Signatures[i]))
    ELSE find_all(found, i + 1)

\* the State built from the addresses found
GlobalState == [execution_context |-> "null", addresses |-> Signatures]

\* auxtools_init: the library after the call, the string returned (NoRet
\* when the call panics)
auxtools_init(lib, env) ==
    IF IsSome(lib.global_state)
    THEN [library |-> lib, ret |-> Success, panic |-> "none"]
    ELSE IF ~env.scanner THEN [library |-> lib, ret |-> NoScanner, panic |-> "none"]
    ELSE LET missing == find_all(env.found, 1)
         IN  IF IsSome(missing)
             THEN [library |-> lib, ret |-> Unwrap(missing), panic |-> "none"]
             ELSE IF IsSome(lib.global_state)
             THEN [library |-> lib, ret |-> NoRet, panic |-> SetPanic]
             ELSE LET set == [lib EXCEPT !.global_state = Some(GlobalState),
                                         !.sets = @ + 1]
                  IN  IF ~env.hooks_init
                      THEN [library |-> set, ret |-> HooksInitError, panic |-> "none"]
                      ELSE [library |-> [set EXCEPT !.hooks_initialized = TRUE,
                                                    !.procs_populated = TRUE,
                                                    !.wew_hooked = env.hook],
                            ret |-> Success, panic |-> "none"]

(***************************************************************************)
(* SpecInit: the VM calls auxtools_init up to MaxCalls times               *)
(***************************************************************************)
\* what a call meets: whether the scanner can be created, which signatures
\* byondcore.dll holds (all, or all but one), whether hooks::init and the
\* hook of /proc/wew succeed
InitEnvs ==
    [scanner : BOOLEAN,
     found : {{Signatures[i] : i \in 1..Len(Signatures)}}
             \cup {{Signatures[i] : i \in 1..Len(Signatures)} \ {Signatures[j]} :
                      j \in 1..Len(Signatures)},
     hooks_init : BOOLEAN,
     hook : BOOLEAN]

AuxtoolsInit(env) ==
    /\ Alive
    /\ library.calls < MaxCalls
    /\ LET r == auxtools_init(library, env)
       IN  /\ library' = [r.library EXCEPT !.calls = @ + 1]
           /\ ret' = r.ret
           /\ panic' = r.panic
    /\ last_req' = [type |-> "auxtools_init", env |-> env, before |-> library]
    /\ UNCHANGED <<stream, connection, socket_ok, should_catch_runtimes, mode,
                   stacks, variables, variables_to_refs, sent, teardowns,
                   ref_log, intern_order, stale_refs, procs, hooked, dism_hooked,
                   net>>

NextInit == \E env \in InitEnvs : AuxtoolsInit(env)

SpecInit == Init /\ [][NextInit]_vars

\* the library is completely initialised
Initialised ==
    /\ IsSome(library.global_state)
    /\ library.hooks_initialized
    /\ library.procs_populated

\* C28 as claimed: over any sequence of auxtools_init calls the global
\* state is set at most once, and a call returns SUCCESS only when the
\* initialisation is complete (global state set, hooks initialised, procs
\* populated), also when it follows a call that failed part-way.
C28_SuccessMeansInitialised ==
    /\ library.sets <= 1
    /\ (last_req.type = "auxtools_init" /\ ret = Success) => Initialised

\* C28, the part that holds: the global state is set at most once, the call
\* that sets it reports SUCCESS only when hooks and procs are set up too,
\* and a call that fails before the state is set leaves the library as it
\* was.
C28_SetOnce ==
    /\ library.sets <= 1
    /\ library.sets = 1 <=> IsSome(library.global_state)
    /\ (/\ last_req.type = "auxtools_init"
        /\ ~IsSome(last_req.before.global_state)
        /\ ret = Success) => Initialised
    /\ (last_req.type = "auxtools_init" /\ ~IsSome(library.global_state))
       => /\ ret # Success
          /\ library = [last_req.before EXCEPT !.calls = @ + 1]
    /\ panic = "none"

\* hooks::init failed in the first call, after the state was set; the
\* second call returned SUCCESS
C28_SuccessAfterFailure ==
    /\ last_req.type = "auxtools_init"
    /\ library.calls = 2
    /\ IsSome(last_req.before.global_state)
    /\ ~library.hooks_initialized
    /\ ~library.procs_populated
    /\ ret = Success

====
